---- MODULE Spec2Model ----
(***************************************************************************)
(* Verification model of the Uma Musume auto-train bot: the best-training  *)
(* selector (core/*/training_handling.py, core/Ura/logic.py), the failure  *)
(* chance reader (check_failure) and the career-lobby decision loop        *)
(* (core/*/execute.py) with the race and event handlers it calls.          *)
(* Scores are kept in hundredths (1.0 is 100), as round(score, 2) leaves   *)
(* them.                                                                   *)
(***************************************************************************)
EXTENDS Integers, Sequences, FiniteSets, TLC

VARIABLES
    \* ---- choose_best_training call ----
    training_results,   \* dict stat -> [failure, score] (insertion order = TrainingOrder)
    config,             \* the config dict handed to choose_best_training
    current_stats,      \* dict stat -> current value, possibly empty
    STAT_CAPS,          \* core/Ura/logic.py module global
    best_training,      \* the value returned
    cpc,                \* "call" before the call, "returned" after it
    \* ---- check_failure call ----
    DEBUG_MODE,         \* training_handling.py module global
    fpc,                \* "white", "yellow", "failed", "returned", "raised"
    attempt,            \* loop variable of the current OCR loop, 0..2
    ocr_text,           \* stripped text of the OCR pass whose value was accepted
    ocr_conf,           \* avg_confidence of that pass, in hundredths
    ocr_passes,         \* OCR passes made so far in this call
    failure_result,     \* (rate, confidence) returned, confidence in hundredths
    debug_saved,        \* debug_failure_<type>_failed_region.png was written
    \* ---- career_lobby decision loop ----
    mode,               \* "ura" or "unity" (main.py)
    RETRY_RACE,         \* racing.retry_race
    stop_on_event_failure,   \* stop_on_event_detection_failure
    restart_enabled,    \* restart_career.restart_enabled
    do_custom_race_enabled,  \* racing.do_custom_race
    pc,                 \* position of the bot: a state check of the loop or a step of a callee
    stack,              \* return positions of the calls in progress (innermost last)
    exc,                \* the exception being raised, None when there is none
    retval,             \* value returned by the latest call that returned a boolean
    exit_reason,        \* how career_lobby ended, None while it runs
    checked,            \* state checks made in the current iteration, in order
    first_match,        \* first state that matched in the current iteration
    acted,              \* device input (tap, swipe, long press) was sent in this iteration
    handled,            \* state whose handler ended the current iteration
    last_failed_custom_race_day,  \* career_lobby local (Ura), 0 for None
    day,                \* the day (year and turn) the game is at
    event_result,       \* (choice_number, success, number of choice_locations)
    prep_i,             \* race_prep: iterations of the current for loop
    after_i,            \* after_race: iterations of the current for loop
    day_i,              \* race_day: retry_count
    race_failure_detected,     \* handle_race_retry_if_failed saw the clock with retry disabled
    input_after_stop,          \* device input was sent after a stop condition was raised
    event_failure_raised,      \* "Event detection failed" was raised
    custom_race_failed_day,    \* history: day of the latest failed do_custom_race, 0 after a success
    fresh,              \* the state values assigned from the screen in the current iteration
    bridge,             \* the device bridge: "up", or how it is unavailable
    screenshot,         \* the screenshot the iteration's checks are made on
    input_result,       \* what the latest device input call returned
    \* ---- calculate_training_score ----
    support_detail,     \* number of detected cards per (type, bond level)
    hint_found,
    training_type,
    spirit,             \* the Unity arguments of the scorer
    score_mode,         \* whose scorer is called: "ura" or "unity"
    score_file,         \* training_score.json
    score,              \* outcome of the latest call
    first_score,        \* outcome of the first call
    calls,              \* calls made so far
    spc,                \* position of the scorer's caller
    \* ---- match_template ----
    template_file,      \* the template on disk: an image, missing, or not loadable
    mt_screenshot,      \* the screenshot argument: an image, or None
    region,             \* the region argument: NoRegion or <<x, w>>
    confidence,         \* the confidence argument, in hundredths
    result,             \* correlation of the template at each column of the screen
    matches,            \* the list match_template returns
    mt_exc,             \* exception raised inside match_template's try block
    feature,            \* what the caller concluded from the list
    mt_pc,              \* position inside match_template and its caller
    \* ---- BotController (gui/bot_controller.py) ----
    bot_running,
    bot_process,        \* None or the Popen object
    process_alive,      \* the subprocess has not exited (poll() is None)
    pipe,               \* stdout lines written by the subprocess and not yet read
    emitted,            \* every stdout line the subprocess has written
    log_queue,
    status_queue,
    gui_log,            \* entries passed to add_log_to_gui, in the order scheduled
    window_bot_running, \* main_window.bot_running
    main_pc,            \* position of the GUI thread inside stop_bot
    bot_pc,             \* position of the bot thread inside run_bot
    monitor_pc,         \* position of the log monitor thread
    accesses,           \* <<thread, field, "r" or "w">> for every access made so far
    \* ---- the training decision of one career_lobby iteration ----
    decision_mode,      \* "ura" or "unity": which execute.py runs
    do_race_when_bad_training,  \* the configured flag
    racing_available,   \* is_racing_available(year)
    fallback_training,  \* result of the relaxed selection, None before it
    trained,            \* the training do_train clicked, None when none was clicked
    lobby_action,       \* "train", "rest", "race" or "nothing"; None before the decision
    decision_path,      \* which branch decided
    dpc,                \* "choose", "no_suitable", "done" ("idle" outside this specification)
    \* ---- run_restart_workflow ----
    workflow_enabled,       \* restart_config 'restart_enabled'
    max_restart_times,      \* restart_config 'restart_times'
    total_fans_requirement, \* restart_config 'total_fans_requirement'
    current_restart_count,  \* run_restart_workflow local
    total_fans_acquired,    \* run_restart_workflow local
    cycle_result,           \* (success, new_restart_count, new_total_fans) of the latest cycle
    fans_counted,           \* complete_career's total_fans_acquired: every run's fans added so far
    cycle_failure,          \* history: why the latest cycle failed, None when it did not
    workflow_result,        \* what run_restart_workflow returned, None before; "raised" for an error
    rw_pc,                  \* position inside run_restart_workflow
    \* ---- BotController: stop_bot followed by start_bot ----
    run_count,          \* start_bot calls so far; run r has reader thread r and subprocess Popen(r)
    reader_pc,          \* position of each run's reader thread inside run_bot
    live,               \* the subprocesses that are running
    read_from,          \* <<r, p>>: reader thread r has read a line of subprocess p
    \* ---- event_handling: analyze_event_options and the choice number ----
    event_options,      \* options of the event in the database: the rewards, in the order of the dict
    event_priorities,   \* event_priority.json: Good_choices and Bad_choices
    event_analysis,     \* what analyze_event_options returned
    event_pc,           \* "idle", "call", "done"
    ec_found_events,    \* database lookup of the event: "unknown", "no_options", "known"
    ec_recommended_option,  \* analysis["recommended_option"]: an option name or None
    ec_expected_options,    \* len(options)
    ec_choices_found,   \* choice icons count_event_choices found on the screen
    ec_result,          \* what handle_event_choice returned
    ec_tapped,          \* what career_lobby tapped for the event
    ec_pc,              \* "idle", "lookup", "choose", "returned", "clicked"
    \* ---- unity_race_handling: _pick_best_opponent ----
    team_rank,          \* rank detected for the own team
    opponent_ranks,     \* detected opponents: <<rank, bbox>> in detection order
    chosen,             \* what _pick_best_opponent returned
    opponent_pc         \* "idle", "call", "done"

chooseVars == <<training_results, config, current_stats, STAT_CAPS, best_training, cpc>>

failureVars == <<DEBUG_MODE, fpc, attempt, ocr_text, ocr_conf, ocr_passes, failure_result, debug_saved>>

cfgVars == <<mode, RETRY_RACE, stop_on_event_failure, restart_enabled, do_custom_race_enabled>>

ctlVars == <<pc, stack, exc, retval, exit_reason>>

iterVars == <<checked, first_match, acted, handled>>

raceVars == <<prep_i, after_i, day_i>>

histVars == <<race_failure_detected, input_after_stop, event_failure_raised, custom_race_failed_day>>

deviceVars == <<bridge, screenshot, input_result>>

loopVars == <<cfgVars, ctlVars, iterVars, fresh, last_failed_custom_race_day, day, event_result, raceVars, histVars,
              deviceVars>>

scoreVars == <<support_detail, hint_found, training_type, spirit, score_mode, score_file,
               score, first_score, calls, spc>>

matchVars == <<template_file, mt_screenshot, region, confidence, result, matches, mt_exc, feature, mt_pc>>

guiVars == <<bot_running, bot_process, process_alive, pipe, emitted, log_queue, status_queue, gui_log,
             window_bot_running, main_pc, bot_pc, monitor_pc, accesses>>

decisionVars == <<decision_mode, do_race_when_bad_training, racing_available, fallback_training,
                  trained, lobby_action, decision_path, dpc>>

restartVars == <<workflow_enabled, max_restart_times, total_fans_requirement, current_restart_count,
                 total_fans_acquired, cycle_result, fans_counted, cycle_failure, workflow_result, rw_pc>>

runVars == <<run_count, reader_pc, live, read_from>>

analysisVars == <<event_options, event_priorities, event_analysis, event_pc>>

choiceVars == <<ec_found_events, ec_recommended_option, ec_expected_options, ec_choices_found,
                ec_result, ec_tapped, ec_pc>>

eventVars == <<analysisVars, choiceVars>>

opponentVars == <<team_rank, opponent_ranks, chosen, opponent_pc>>

vars == <<chooseVars, failureVars, loopVars, scoreVars, matchVars, guiVars, decisionVars, restartVars, runVars, eventVars, opponentVars>>

None == "None"
\* a key that is missing from a config dict (numeric fields)
Absent == -1
\* a list-valued key that is missing from a config dict
AbsentList == [present |-> FALSE, value |-> << >>]
Listed(lst) == [present |-> TRUE, value |-> lst]

\* ------------------------------------------------------------------------
\* Bounds and input domains
\* ------------------------------------------------------------------------
MaxOptions == 2
MaxTextLen == 3
MaxChoices == 2
MaxPrepAttempts == 1
MaxAfterAttempts == 1
MaxDayChecks == 2
MaxDays == 2
MaxCards == 2
MaxPositions == 2
MaxLines == 2
MaxRestartTimes == 2
MaxRuns == 2
MaxEventOptions == 2
MaxGoodChoices == 2
MaxExpectedOptions == 4
MaxOpponents == 2
MaxRunFans == 2

Stats == {"spd", "sta", "pwr", "guts", "wit"}

\* insertion order of the results dict built by check_training
TrainingOrder == <<"spd", "sta", "pwr", "guts", "wit">>

DefaultPriority == <<"spd", "sta", "wit", "pwr", "guts">>
DefaultMaxFailure == 15
DefaultMinScore == 100
DefaultStatCap == 1200

EmptyDict == [k \in {} |-> 0]

FailureValues == {15, 100}
ScoreValues == {70, 100, 130}
OptionValues == [failure : FailureValues, score : ScoreValues]

TrainingResultsInputs ==
    UNION { [D -> OptionValues] : D \in { S \in SUBSET Stats : Cardinality(S) <= MaxOptions } }

MinScoreInputs ==
    { [kind |-> "absent", num |-> 0, dict |-> EmptyDict, min_wit_score |-> Absent],
      [kind |-> "num", num |-> 70, dict |-> EmptyDict, min_wit_score |-> Absent],
      [kind |-> "num", num |-> 70, dict |-> EmptyDict, min_wit_score |-> 130],
      [kind |-> "dict", num |-> 0, dict |-> [k \in {"spd", "sta"} |-> IF k = "spd" THEN 130 ELSE 70],
       min_wit_score |-> Absent] }

PriorityInputs ==
    { AbsentList, Listed(<<"wit", "guts">>), Listed(<<"guts", "pwr", "wit", "sta", "spd">>) }

ConfigInputs ==
    { [maximum_failure |-> mf, min_score |-> ms, priority_stat |-> ps] :
        mf \in {Absent, 100}, ms \in MinScoreInputs, ps \in PriorityInputs }

CurrentStatsInputs ==
    { EmptyDict,
      [k \in Stats |-> IF k = "spd" THEN 1200 ELSE 500],
      [k \in {"sta"} |-> 650] }

StatCapsInputs ==
    { EmptyDict,
      [k \in Stats |-> 600],
      [k \in {"spd"} |-> 0] }

\* ------------------------------------------------------------------------
\* Helpers for Python dicts and lists
\* ------------------------------------------------------------------------
\* d.get(k, default)
Get(d, k, default) == IF k \in DOMAIN d THEN d[k] ELSE default

\* lst.index(k), 0-based, for k in lst
IndexOf(lst, k) == (CHOOSE i \in 1..Len(lst) : lst[i] = k /\ \A j \in 1..(i-1) : lst[j] # k) - 1

InList(lst, k) == \E i \in 1..Len(lst) : lst[i] = k

\* position of a key in the insertion order of the results dict
InsertionPos(k) == IndexOf(TrainingOrder, k)

\* ------------------------------------------------------------------------
\* core/Ura/logic.py
\* ------------------------------------------------------------------------
filter_by_stat_caps_AtCapAllowed(results, stats, caps) ==
    { stat \in results : Get(stats, stat, 0) <= Get(caps, stat, DefaultStatCap) }

\* keys kept by filter_by_stat_caps
filter_by_stat_caps(results, stats, caps) ==
    { stat \in results : Get(stats, stat, 0) < Get(caps, stat, DefaultStatCap) }

\* ------------------------------------------------------------------------
\* choose_best_training
\* ------------------------------------------------------------------------
max_failure_of(cfg) ==
    IF cfg.maximum_failure = Absent THEN DefaultMaxFailure ELSE cfg.maximum_failure

priority_stat_of(cfg) ==
    IF cfg.priority_stat.present THEN cfg.priority_stat.value ELSE DefaultPriority

\* the per-stat minimum scores after the legacy conversion and the defaults
min_scores(cfg) ==
    LET ms == cfg.min_score
        min_score_config ==
            IF ms.kind = "num"
            THEN [k \in Stats |->
                    IF k = "wit" /\ ms.min_wit_score # Absent THEN ms.min_wit_score ELSE ms.num]
            ELSE ms.dict
    IN [k \in Stats |-> Get(min_score_config, k, DefaultMinScore)]

safe_options_Unfiltered(tr, cfg) == DOMAIN tr

safe_options(tr, cfg) ==
    { k \in DOMAIN tr : tr[k].failure <= max_failure_of(cfg) }

capped_options(safe, stats, caps) ==
    IF DOMAIN stats = {} THEN safe ELSE filter_by_stat_caps(safe, stats, caps)

valid_options_NoScoreFilter(tr, capped, cfg) == capped

valid_options(tr, capped, cfg) ==
    { k \in capped : ~(tr[k].score < min_scores(cfg)[k]) }

priority_index_Ignored(cfg, k) == Len(priority_stat_of(cfg))

priority_index(cfg, k) ==
    IF InList(priority_stat_of(cfg), k)
    THEN IndexOf(priority_stat_of(cfg), k)
    ELSE Len(priority_stat_of(cfg))

\* sort_key(a) < sort_key(b), ties left to the stable sort (insertion order)
SortsBefore_Ascending(tr, cfg, a, b) ==
    \/ tr[a].score < tr[b].score
    \/ /\ tr[a].score = tr[b].score
       /\ \/ priority_index(cfg, a) < priority_index(cfg, b)
          \/ /\ priority_index(cfg, a) = priority_index(cfg, b)
             /\ InsertionPos(a) < InsertionPos(b)

SortsBefore(tr, cfg, a, b) ==
    \/ (0 - tr[a].score) < (0 - tr[b].score)
    \/ /\ tr[a].score = tr[b].score
       /\ \/ priority_index(cfg, a) < priority_index(cfg, b)
          \/ /\ priority_index(cfg, a) = priority_index(cfg, b)
             /\ InsertionPos(a) < InsertionPos(b)

RECURSIVE sorted_options(_, _, _)
sorted_options(tr, cfg, S) ==
    IF S = {} THEN << >>
    ELSE LET first == CHOOSE a \in S : \A b \in S \ {a} : SortsBefore(tr, cfg, a, b)
         IN <<first>> \o sorted_options(tr, cfg, S \ {first})

choose_best_training(tr, cfg, stats, caps) ==
    IF DOMAIN tr = {} THEN None
    ELSE LET safe == safe_options(tr, cfg)
         IN IF safe = {} THEN None
            ELSE LET capped == capped_options(safe, stats, caps)
                 IN IF capped = {} THEN None
                    ELSE LET valid == valid_options(tr, capped, cfg)
                         IN IF valid = {} THEN None
                            ELSE sorted_options(tr, cfg, valid)[1]

\* ------------------------------------------------------------------------
\* Specification of one call of the selector over all bounded inputs
\* ------------------------------------------------------------------------
ChooseStart ==
    /\ training_results \in TrainingResultsInputs
    /\ config \in ConfigInputs
    /\ current_stats \in CurrentStatsInputs
    /\ STAT_CAPS \in StatCapsInputs
    /\ best_training = None
    /\ cpc = "call"

CallChooseBest ==
    /\ cpc = "call"
    /\ best_training' = choose_best_training(training_results, config, current_stats, STAT_CAPS)
    /\ cpc' = "returned"
    /\ UNCHANGED <<training_results, config, current_stats, STAT_CAPS>>
    /\ UNCHANGED <<failureVars, loopVars, scoreVars, matchVars, guiVars, decisionVars, restartVars, runVars, eventVars, opponentVars>>

ChooseNext == CallChooseBest

\* ------------------------------------------------------------------------
\* check_failure
\* ------------------------------------------------------------------------
OcrChars == {"0", "1", "5", "%", " "}
Digits == {"0", "1", "5"}

\* texts pytesseract.image_to_string may produce
OcrTexts == UNION { [1..n -> OcrChars] : n \in 0..MaxTextLen }

\* avg_confidence values, in hundredths
OcrConfidences == {0, 79, 80, 89, 90}

WhiteMinConfidence == 80
YellowMinConfidence == 90
AttemptsPerPass == 3
fallback_result_Optimistic == <<0, 0>>
\* the (rate, confidence) returned when detection completely fails
fallback_result == <<100, 0>>

NoMatch == -1

DigitValue(c) == CASE c = "0" -> 0 [] c = "1" -> 1 [] c = "5" -> 5 [] OTHER -> 0

\* str.strip()
RECURSIVE LStrip(_)
LStrip(t) == IF t # << >> /\ Head(t) = " " THEN LStrip(Tail(t)) ELSE t

RECURSIVE RStrip(_)
RStrip(t) == IF t # << >> /\ t[Len(t)] = " " THEN RStrip(SubSeq(t, 1, Len(t) - 1)) ELSE t

Strip(t) == RStrip(LStrip(t))

\* length of the run of digits of t that starts at position i
RECURSIVE DigitRun(_, _)
DigitRun(t, i) == IF i <= Len(t) /\ t[i] \in Digits THEN 1 + DigitRun(t, i + 1) ELSE 0

\* first position at or after i that holds no whitespace
RECURSIVE SkipSpaces(_, _)
SkipSpaces(t, i) == IF i <= Len(t) /\ t[i] = " " THEN SkipSpaces(t, i + 1) ELSE i

\* int() of the n digits of t that start at position i
RECURSIVE IntOf(_, _, _)
IntOf(t, i, n) == IF n = 0 THEN 0 ELSE IntOf(t, i, n - 1) * 10 + DigitValue(t[i + n - 1])

Min(a, b) == IF a < b THEN a ELSE b

\* re.search(r"(\d{1,3})\s*%", t): group 1 as an integer, or NoMatch
SearchDigitsPercent(t) ==
    LET hit(i) == \E n \in 1..Min(3, DigitRun(t, i)) :
                     LET j == SkipSpaces(t, i + n) IN j <= Len(t) /\ t[j] = "%"
        starts == { i \in 1..Len(t) : hit(i) }
    IN IF starts = {} THEN NoMatch
       ELSE LET i == CHOOSE x \in starts : \A y \in starts : x <= y
                n == CHOOSE m \in 1..Min(3, DigitRun(t, i)) :
                        /\ LET j == SkipSpaces(t, i + m) IN j <= Len(t) /\ t[j] = "%"
                        /\ \A m2 \in (m+1)..Min(3, DigitRun(t, i)) :
                              LET j2 == SkipSpaces(t, i + m2) IN ~(j2 <= Len(t) /\ t[j2] = "%")
            IN IntOf(t, i, n)

\* re.search(r"%\s*(\d{1,3})", t)
SearchPercentDigits(t) ==
    LET starts == { i \in 1..Len(t) : t[i] = "%" /\ DigitRun(t, SkipSpaces(t, i + 1)) > 0 }
    IN IF starts = {} THEN NoMatch
       ELSE LET i == CHOOSE x \in starts : \A y \in starts : x <= y
                j == SkipSpaces(t, i + 1)
            IN IntOf(t, j, Min(3, DigitRun(t, j)))

\* re.search(r"(\d{1,3})", t)
SearchDigits(t) ==
    LET starts == { i \in 1..Len(t) : t[i] \in Digits }
    IN IF starts = {} THEN NoMatch
       ELSE LET i == CHOOSE x \in starts : \A y \in starts : x <= y
            IN IntOf(t, i, Min(3, DigitRun(t, i)))

percentage_patterns(t) == <<SearchDigitsPercent(t), SearchPercentDigits(t), SearchDigits(t)>>

InRange(rate) == 0 <= rate /\ rate <= 100

accepted_rate_AnyConfidence(t, conf, min_conf) ==
    LET m == percentage_patterns(t)
        ok == { p \in 1..3 : m[p] # NoMatch /\ InRange(m[p]) }
    IN IF ok = {} THEN NoMatch
       ELSE m[CHOOSE p \in ok : \A q \in ok : p <= q]

\* the rate the pattern loop of one OCR pass returns, or NoMatch when the loop
\* falls through
accepted_rate(t, conf, min_conf) ==
    LET m == percentage_patterns(t)
        ok == { p \in 1..3 : m[p] # NoMatch /\ InRange(m[p]) /\ conf >= min_conf }
    IN IF ok = {} THEN NoMatch
       ELSE m[CHOOSE p \in ok : \A q \in ok : p <= q]

FailureIdle ==
    /\ DEBUG_MODE = FALSE
    /\ fpc = "idle"
    /\ attempt = 0
    /\ ocr_text = << >>
    /\ ocr_conf = 0
    /\ ocr_passes = 0
    /\ failure_result = <<NoMatch, 0>>
    /\ debug_saved = FALSE

FailureStart ==
    /\ DEBUG_MODE \in BOOLEAN
    /\ fpc = "white"
    /\ attempt = 0
    /\ ocr_text = << >>
    /\ ocr_conf = 0
    /\ ocr_passes = 0
    /\ failure_result = <<NoMatch, 0>>
    /\ debug_saved = FALSE

\* one iteration of a 3-attempt OCR loop (white mask or yellow mask)
OcrAttempt(pass, min_conf, next_pass) ==
    /\ fpc = pass
    /\ \E text \in OcrTexts, conf \in OcrConfidences :
         LET t == Strip(text)
             rate == accepted_rate(t, conf, min_conf)
         IN /\ ocr_passes' = ocr_passes + 1
            /\ IF rate # NoMatch
               THEN /\ failure_result' = <<rate, conf>>
                    /\ ocr_text' = t
                    /\ ocr_conf' = conf
                    /\ fpc' = "returned"
                    /\ UNCHANGED attempt
               ELSE /\ UNCHANGED <<failure_result, ocr_text, ocr_conf>>
                    /\ IF attempt + 1 < AttemptsPerPass
                       THEN attempt' = attempt + 1 /\ UNCHANGED fpc
                       ELSE attempt' = 0 /\ fpc' = next_pass
    /\ UNCHANGED <<DEBUG_MODE, debug_saved>>

WhiteAttempt ==
    /\ OcrAttempt("white", WhiteMinConfidence, "yellow")
    /\ UNCHANGED <<chooseVars, loopVars, scoreVars, matchVars, guiVars, decisionVars, restartVars, runVars, eventVars, opponentVars>>

YellowAttempt ==
    /\ OcrAttempt("yellow", YellowMinConfidence, "failed")
    /\ UNCHANGED <<chooseVars, loopVars, scoreVars, matchVars, guiVars, decisionVars, restartVars, runVars, eventVars, opponentVars>>

\* the code after both loops
AllAttemptsFailed ==
    /\ fpc = "failed"
    /\ IF DEBUG_MODE
       THEN /\ debug_saved' = TRUE
            /\ fpc' = "raised"
            /\ UNCHANGED failure_result
       ELSE /\ failure_result' = fallback_result
            /\ fpc' = "returned"
            /\ UNCHANGED debug_saved
    /\ UNCHANGED <<DEBUG_MODE, attempt, ocr_text, ocr_conf, ocr_passes>>
    /\ UNCHANGED <<chooseVars, loopVars, scoreVars, matchVars, guiVars, decisionVars, restartVars, runVars, eventVars, opponentVars>>

\* ------------------------------------------------------------------------
\* career_lobby: the decision loop (core/Ura/execute.py, core/Unity/execute.py)
\* ------------------------------------------------------------------------
Modes == {"ura", "unity"}

\* The order in which one iteration of career_lobby tests the screen.
CheckOrder_Swapped(m) ==
    IF m = "ura"
    THEN <<"complete_career", "ok", "claw", "event", "inspiration", "cancel", "next",
           "lobby", "infirmary", "race_priority", "ura_finale", "race_day",
           "custom_race", "mood", "energy", "training">>
    ELSE <<"complete_career", "ok", "claw", "event", "unity_cup", "inspiration", "cancel",
           "close", "next", "lobby", "infirmary", "race_priority", "ura_finale",
           "race_day", "custom_race", "mood", "energy", "training">>

CheckOrder(m) ==
    IF m = "ura"
    THEN <<"complete_career", "claw", "ok", "event", "inspiration", "cancel", "next",
           "lobby", "infirmary", "race_priority", "ura_finale", "race_day",
           "custom_race", "mood", "energy", "training">>
    ELSE <<"complete_career", "claw", "ok", "event", "unity_cup", "inspiration", "cancel",
           "close", "next", "lobby", "infirmary", "race_priority", "ura_finale",
           "race_day", "custom_race", "mood", "energy", "training">>

PositionOf(seq, s) == CHOOSE i \in 1..Len(seq) : seq[i] = s

\* The check that follows check s when s does not end the iteration.
NextCheck(s) ==
    LET order == CheckOrder(mode)
        after == order[PositionOf(order, s) + 1]
    IN  IF after = "infirmary" THEN "new_screenshot"
        ELSE IF after = "race_priority" THEN "read_state"
        ELSE after

\* Exceptions: SystemExit and KeyboardInterrupt derive from BaseException only.
EventDetectionFailed == "RuntimeError: Event detection failed"

Exceptions == {"SystemExit", "KeyboardInterrupt", "RuntimeError", "Exception", EventDetectionFailed}

IsRuntimeError(e) == e \in {"RuntimeError", EventDetectionFailed}

IsException(e) == IsRuntimeError(e) \/ e = "Exception"

\* What each except block of the call chain does with an exception that
\* reaches it: "handle" it, "reraise" it, or let it "propagate" unmatched.
handle_event_choice_except_Swallow(e) ==
    IF IsException(e) THEN "handle" ELSE "propagate"

handle_event_choice_except(e) ==
    IF ~IsException(e) THEN "propagate"
    ELSE IF e = EventDetectionFailed THEN "reraise"
    ELSE "handle"

career_lobby_event_except(e) ==
    IF IsRuntimeError(e)
    THEN IF e = EventDetectionFailed THEN "reraise" ELSE "handle"
    ELSE IF IsException(e) THEN "handle" ELSE "propagate"

handle_race_retry_except_CatchAll(e) ==
    "handle"

handle_race_retry_except(e) ==
    IF e = "SystemExit" THEN "reraise"
    ELSE IF IsException(e) THEN "handle"
    ELSE "propagate"

find_and_do_race_except_NoHandler(e) ==
    "propagate"

find_and_do_race_except(e) ==
    IF IsException(e) THEN "handle" ELSE "propagate"

\* The except block that guards a call returning to position f.
Handler(f) ==
    CASE f = "event_ret" -> "event_except"
      [] f = "HR_prep_ret" -> "HR_except"
      [] f \in {"FR_exec_ret", "CR_exec_ret"} -> "FR_except"
      [] OTHER -> None

\* ---- bookkeeping shared by the steps ----
\* the triple handle_event_choice returns, choice_locations by its length
EventResult(choice, success, locations) ==
    [choice_number |-> choice, success |-> success, locations |-> locations]

\* ---- device bridge (utils/device.py, utils/input.py) ----
BridgeStates == {"up", "offline", "no_adb"}

Stdout == "stdout"

NotCalled == "not_called"

Raised_run_adb == "raised"

\* what subprocess.run(full_cmd, capture_output=True, check=True) raises
subprocess_run_error(b) ==
    CASE b = "offline" -> "CalledProcessError"
      [] b = "no_adb" -> "FileNotFoundError"
      [] OTHER -> None

\* except subprocess.CalledProcessError / except Exception: return None
run_adb_except_OnlyCalledProcessError(e) ==
    IF e = "CalledProcessError" THEN "return_none" ELSE "propagate"

run_adb_except(e) ==
    IF e = "CalledProcessError" THEN "return_none"
    ELSE IF e \in {"FileNotFoundError", "Exception"} \/ IsException(e) THEN "return_none"
    ELSE "propagate"

run_adb(b) ==
    IF subprocess_run_error(b) = None THEN Stdout
    ELSE IF run_adb_except(subprocess_run_error(b)) = "return_none" THEN None
    ELSE Raised_run_adb

tap(b) == run_adb(b)

swipe(b) == run_adb(b)

perform_swipe(b) ==
    IF run_adb(b) = Raised_run_adb THEN Raised_run_adb
    ELSE IF run_adb(b) # None THEN "True" ELSE "False"

\* the device calls of utils/input.py and utils/device.py
DeviceCalls == {"tap", "swipe", "perform_swipe", "run_adb"}

device_call(c, b) ==
    CASE c = "tap" -> tap(b)
      [] c = "swipe" -> swipe(b)
      [] c = "perform_swipe" -> perform_swipe(b)
      [] c = "run_adb" -> run_adb(b)

\* take_screenshot(): an image, or None when the bridge gives none
take_screenshot(b) == IF b = "up" THEN "image" ELSE None

\* match_template(screenshot, ...) finds nothing on a missing screenshot
Visible == IF screenshot = "image" THEN BOOLEAN ELSE {FALSE}

\* locate_on_screen(...) and count_event_choices() take their own screenshot
OnScreen == IF bridge = "up" THEN BOOLEAN ELSE {FALSE}

Check(s) == checked' = Append(checked, s)

Match(s) == first_match' = IF first_match = None THEN s ELSE first_match

Input ==
    /\ acted' = TRUE
    /\ input_result' = tap(bridge)
    /\ input_after_stop' = (input_after_stop \/ race_failure_detected \/ event_failure_raised)

NoInput == UNCHANGED <<acted, input_after_stop, input_result>>

MaybeInput == \E sent \in BOOLEAN : IF sent THEN Input ELSE NoInput

Goto(l) == pc' = l /\ UNCHANGED <<stack, exc, retval, exit_reason>>

Call(f, ret) == pc' = f /\ stack' = Append(stack, ret) /\ UNCHANGED <<exc, retval, exit_reason>>

Return(v) ==
    /\ pc' = stack[Len(stack)]
    /\ stack' = SubSeq(stack, 1, Len(stack) - 1)
    /\ retval' = v
    /\ UNCHANGED <<exc, exit_reason>>

Throw(e, l) == pc' = l /\ exc' = e /\ UNCHANGED <<stack, retval, exit_reason>>

\* `continue`: the handler is done, the loop starts over.
Continue(s) == handled' = s /\ Goto("top")

OutsideLoop == UNCHANGED <<chooseVars, failureVars, cfgVars, scoreVars, matchVars, guiVars, decisionVars, restartVars, runVars, eventVars, opponentVars, bridge>>

SameScreenshot == UNCHANGED screenshot

RaceIdle == UNCHANGED <<raceVars, race_failure_detected>>

Quiet == UNCHANGED <<last_failed_custom_race_day, custom_race_failed_day, day, event_result, event_failure_raised, fresh, screenshot>>

\* ---- career_lobby ----
\* while True: take_screenshot(); the locals of the calls made by the
\* previous iteration are gone
StartIteration ==
    /\ pc = "top"
    /\ checked' = << >>
    /\ first_match' = None
    /\ acted' = FALSE
    /\ handled' = None
    /\ pc' = "complete_career"
    /\ retval' = FALSE
    /\ event_result' = EventResult(1, FALSE, 0)
    /\ prep_i' = 0
    /\ after_i' = 0
    /\ day_i' = 0
    /\ UNCHANGED <<stack, exc, exit_reason>>
    /\ UNCHANGED <<input_after_stop, race_failure_detected>>
    /\ fresh' = {}
    /\ screenshot' = take_screenshot(bridge)
    /\ input_result' = NotCalled
    /\ UNCHANGED <<last_failed_custom_race_day, custom_race_failed_day, day, event_failure_raised>>
    /\ OutsideLoop

run_restart_workflow_FalseWhenComplete(enabled) == FALSE

\* run_restart_workflow: False when restarting is disabled, True after the workflow
run_restart_workflow(enabled) == IF ~enabled THEN FALSE ELSE TRUE

\* career_lobby_check(screenshot)
career_lobby_check(enabled, complete_career_screen) ==
    IF ~enabled THEN FALSE
    ELSE IF complete_career_screen THEN run_restart_workflow(enabled)
    ELSE TRUE

\* Complete Career button: career_lobby_check decides whether the loop goes on.
CheckCompleteCareer ==
    /\ pc = "complete_career"
    /\ Check("complete_career")
    /\ \E found \in Visible, failed \in BOOLEAN :
        IF ~found
        THEN /\ Goto(NextCheck("complete_career"))
             /\ NoInput
             /\ UNCHANGED <<first_match, handled>>
        ELSE /\ Match("complete_career")
             /\ UNCHANGED handled
             /\ IF failed
                THEN Goto(NextCheck("complete_career")) /\ NoInput
                ELSE /\ pc' = "complete_career_ret"
                     /\ retval' = career_lobby_check(restart_enabled, found)
                     /\ UNCHANGED <<stack, exc, exit_reason>>
                     /\ IF restart_enabled THEN MaybeInput ELSE NoInput
    /\ OutsideLoop /\ RaceIdle /\ Quiet

\* should_continue = career_lobby_check(screenshot); if not should_continue: return False
CompleteCareerReturn ==
    /\ pc = "complete_career_ret"
    /\ IF ~retval
       THEN /\ pc' = "done"
            /\ exit_reason' = "return"
            /\ UNCHANGED <<stack, exc, retval>>
       ELSE Goto(NextCheck("complete_career"))
    /\ NoInput
    /\ UNCHANGED <<checked, first_match, handled>>
    /\ OutsideLoop /\ RaceIdle /\ Quiet

\* A button whose handler is a single tap (claw_machine for the claw game).
TapState(s) ==
    /\ pc = s
    /\ Check(s)
    /\ \E found \in Visible :
        IF found
        THEN Match(s) /\ Input /\ Continue(s)
        ELSE Goto(NextCheck(s)) /\ NoInput /\ UNCHANGED <<first_match, handled>>
    /\ OutsideLoop /\ RaceIdle /\ Quiet

CheckClaw == TapState("claw")

CheckOk == TapState("ok")

CheckInspiration == TapState("inspiration")

CheckCancel == TapState("cancel")

CheckClose == mode = "unity" /\ TapState("close")

CheckNext == TapState("next")

\* Event choice icon: handle_event_choice is called inside the try block.
CheckEvent ==
    /\ pc = "event"
    /\ Check("event")
    /\ \E found \in Visible, error \in BOOLEAN :
        IF error
        THEN Throw("Exception", "event_except") /\ UNCHANGED first_match
        ELSE IF found
        THEN Match("event") /\ Call("HE", "event_ret")
        ELSE Goto(NextCheck("event")) /\ UNCHANGED first_match
    /\ NoInput
    /\ UNCHANGED handled
    /\ OutsideLoop /\ RaceIdle /\ Quiet

\* choice_number, success, choice_locations = handle_event_choice() returned.
EventReturn ==
    /\ pc = "event_ret"
    /\ IF event_result.success
       THEN Input     \* click_event_choice, or the tap on the first icon when it fails
       ELSE IF event_result.locations = 0 THEN NoInput ELSE Input
    /\ Continue("event")
    /\ UNCHANGED <<checked, first_match>>
    /\ OutsideLoop /\ RaceIdle /\ Quiet

\* except RuntimeError / except Exception around the event check.
EventExcept ==
    /\ pc = "event_except"
    /\ IF career_lobby_event_except(exc) = "handle"
       THEN /\ pc' = NextCheck("event")
            /\ exc' = None
            /\ UNCHANGED <<stack, retval, exit_reason>>
       ELSE Goto("raise")
    /\ UNCHANGED iterVars
    /\ UNCHANGED <<input_after_stop, input_result>>
    /\ OutsideLoop /\ RaceIdle /\ Quiet

\* Unity Cup banner: unity_race_workflow inside try / except Exception.
CheckUnityCup ==
    /\ mode = "unity"
    /\ pc = "unity_cup"
    /\ Check("unity_cup")
    /\ \E found \in Visible, done \in BOOLEAN :
        IF ~found
        THEN Goto(NextCheck("unity_cup")) /\ NoInput /\ UNCHANGED <<first_match, handled>>
        ELSE /\ Match("unity_cup")
             /\ IF done
                THEN Input /\ Continue("unity_cup")
                ELSE MaybeInput /\ Goto(NextCheck("unity_cup")) /\ UNCHANGED handled
    /\ OutsideLoop /\ RaceIdle /\ Quiet

\* tazuna_hint: without it the bot is not in the lobby and the loop retries.
CheckLobby ==
    /\ pc = "lobby"
    /\ Check("lobby")
    /\ \E found \in OnScreen :
        IF found THEN Goto(NextCheck("lobby")) ELSE Goto("top")
    /\ NoInput
    /\ UNCHANGED <<first_match, handled>>
    /\ OutsideLoop /\ RaceIdle /\ Quiet

NewScreenshot ==
    /\ pc = "new_screenshot"
    /\ Goto("infirmary")
    /\ screenshot' = take_screenshot(bridge)
    /\ UNCHANGED iterVars
    /\ UNCHANGED <<input_after_stop, input_result>>
    /\ UNCHANGED <<last_failed_custom_race_day, custom_race_failed_day, day, event_result, event_failure_raised, fresh>>
    /\ OutsideLoop /\ RaceIdle

CheckInfirmary ==
    /\ pc = "infirmary"
    /\ Check("infirmary")
    /\ \E active \in BOOLEAN :
        IF active
        THEN Match("infirmary") /\ Input /\ Continue("infirmary")
        ELSE Goto(NextCheck("infirmary")) /\ NoInput /\ UNCHANGED <<first_match, handled>>
    /\ OutsideLoop /\ RaceIdle /\ Quiet

\* The values the decisions below the lobby check are taken from.
StateValues == {"year", "mood", "energy", "criteria", "current_stats"}

\* check_mood, check_current_year, check_criteria, check_energy_bar and
\* check_current_stats assign their values; check_current_stats catches the
\* errors of each stat itself and returns all five stats.
values_read_StatsKept(m) ==
    IF m = "unity" THEN StateValues \ {"current_stats"} ELSE StateValues

values_read(m) ==
    StateValues

\* the values a decision at position p is taken from
DecisionInputs(p) ==
    CASE p = "race_priority" -> {"criteria", "year"}
      [] p \in {"ura_finale", "race_day", "custom_race"} -> {"year"}
      [] p = "mood" -> {"mood", "energy"}
      [] p = "energy" -> {"energy"}
      [] p = "decide_training" -> {"current_stats", "year"}
      [] OTHER -> {}

\* mood, turn, year, criteria, energy and stats are read from the screenshot.
ReadState ==
    /\ pc = "read_state"
    /\ \E d \in {day, Min(day + 1, MaxDays)} : day' = d
    /\ fresh' = values_read(mode)
    /\ Goto("race_priority")
    /\ UNCHANGED iterVars
    /\ UNCHANGED <<input_after_stop, input_result, last_failed_custom_race_day, custom_race_failed_day, event_result, event_failure_raised>>
    /\ OutsideLoop /\ RaceIdle /\ SameScreenshot

\* Goal criteria ask for a race: find_and_do_race, and training when none is found.
CheckRacePriority ==
    /\ pc = "race_priority"
    /\ Check("race_priority")
    /\ \E should_prioritize_racing \in BOOLEAN :
        IF should_prioritize_racing
        THEN Match("race_priority") /\ Call("FR", "race_priority_ret")
        ELSE Goto(NextCheck("race_priority")) /\ UNCHANGED first_match
    /\ NoInput
    /\ UNCHANGED handled
    /\ OutsideLoop /\ RaceIdle /\ Quiet

RacePriorityReturn ==
    /\ pc = "race_priority_ret"
    /\ IF retval
       THEN NoInput /\ Continue("race_priority")
       ELSE MaybeInput /\ Goto(NextCheck("race_priority")) /\ UNCHANGED handled
    /\ UNCHANGED <<checked, first_match>>
    /\ OutsideLoop /\ RaceIdle /\ Quiet

\* URA finale race day: race_prep(), handle_race_retry_if_failed(), after_race().
CheckUraFinale ==
    /\ pc = "ura_finale"
    /\ Check("ura_finale")
    /\ \E finale \in BOOLEAN :
        IF finale
        THEN /\ Match("ura_finale")
             /\ MaybeInput
             /\ Call("RP1", "finale_prep_ret")
             /\ prep_i' = 0
        ELSE /\ Goto(NextCheck("ura_finale"))
             /\ NoInput
             /\ UNCHANGED <<first_match, prep_i>>
    /\ UNCHANGED <<handled, after_i, day_i, race_failure_detected>>
    /\ OutsideLoop /\ Quiet

UraFinalePrepReturn ==
    /\ pc = "finale_prep_ret"
    /\ Call("HR", "finale_retry_ret")
    /\ NoInput
    /\ UNCHANGED iterVars
    /\ OutsideLoop /\ RaceIdle /\ Quiet

UraFinaleRetryReturn ==
    /\ pc = "finale_retry_ret"
    /\ Call("AR1", "finale_after_ret")
    /\ after_i' = 0
    /\ NoInput
    /\ UNCHANGED iterVars
    /\ UNCHANGED <<prep_i, day_i, race_failure_detected>>
    /\ OutsideLoop /\ Quiet

UraFinaleAfterReturn ==
    /\ pc = "finale_after_ret"
    /\ NoInput
    /\ Continue("ura_finale")
    /\ UNCHANGED <<checked, first_match>>
    /\ OutsideLoop /\ RaceIdle /\ Quiet

\* Race day outside the finale: race_day(), then continue whatever it returned.
CheckRaceDay ==
    /\ pc = "race_day"
    /\ Check("race_day")
    /\ \E is_race_day \in BOOLEAN :
        IF is_race_day
        THEN Match("race_day") /\ Call("RD", "race_day_ret")
        ELSE Goto(NextCheck("race_day")) /\ UNCHANGED first_match
    /\ NoInput
    /\ UNCHANGED handled
    /\ OutsideLoop /\ RaceIdle /\ Quiet

RaceDayReturn ==
    /\ pc = "race_day_ret"
    /\ NoInput
    /\ Continue("race_day")
    /\ UNCHANGED <<checked, first_match>>
    /\ OutsideLoop /\ RaceIdle /\ Quiet

\* Custom race, when enabled: do_custom_race; Ura remembers the day on which it failed.
CheckCustomRace ==
    /\ pc = "custom_race"
    /\ Check("custom_race")
    /\ IF do_custom_race_enabled /\ ~(mode = "ura" /\ last_failed_custom_race_day = day)
       THEN Match("custom_race") /\ Call("CR", "custom_race_ret")
       ELSE Goto(NextCheck("custom_race")) /\ UNCHANGED first_match
    /\ NoInput
    /\ UNCHANGED handled
    /\ OutsideLoop /\ RaceIdle /\ Quiet

CustomRaceReturn ==
    /\ pc = "custom_race_ret"
    /\ IF retval
       THEN /\ Continue("custom_race")
            /\ last_failed_custom_race_day' =
                 IF mode = "ura" THEN 0 ELSE last_failed_custom_race_day
            /\ custom_race_failed_day' = 0
       ELSE /\ Goto(NextCheck("custom_race"))
            /\ UNCHANGED handled
            /\ last_failed_custom_race_day' =
                 IF mode = "ura" THEN day ELSE last_failed_custom_race_day
            /\ custom_race_failed_day' = day
    /\ NoInput
    /\ UNCHANGED <<checked, first_match, day, event_result, event_failure_raised, fresh>>
    /\ OutsideLoop /\ RaceIdle /\ SameScreenshot

\* do_dating (Unity) raises RuntimeError when its buttons are not found.
Recover(s) ==
    \E dating \in BOOLEAN, missing \in BOOLEAN :
        IF mode = "unity" /\ dating /\ missing
        THEN Throw("RuntimeError", "raise") /\ MaybeInput /\ UNCHANGED handled
        ELSE MaybeInput /\ Continue(s)

\* Mood below the minimum: recreation, unless energy is above 90.
CheckMood ==
    /\ pc = "mood"
    /\ Check("mood")
    /\ \E low \in BOOLEAN, energy_high \in BOOLEAN :
        IF ~low
        THEN Goto(NextCheck("mood")) /\ NoInput /\ UNCHANGED <<first_match, handled>>
        ELSE /\ Match("mood")
             /\ IF energy_high
                THEN Goto(NextCheck("mood")) /\ NoInput /\ UNCHANGED handled
                ELSE Recover("mood")
    /\ OutsideLoop /\ RaceIdle /\ Quiet

\* Energy below min_energy: rest.
CheckEnergy ==
    /\ pc = "energy"
    /\ Check("energy")
    /\ \E low \in BOOLEAN :
        IF low
        THEN Match("energy") /\ Recover("energy")
        ELSE Goto(NextCheck("energy")) /\ NoInput /\ UNCHANGED <<first_match, handled>>
    /\ OutsideLoop /\ RaceIdle /\ Quiet

\* go_to_training(): the training button, else the loop retries.
CheckTraining ==
    /\ pc = "training"
    /\ Check("training")
    /\ \E found \in BOOLEAN :
        IF found
        THEN Match("training") /\ Input /\ Goto("check_training")
        ELSE Goto("top") /\ NoInput /\ UNCHANGED first_match
    /\ UNCHANGED handled
    /\ OutsideLoop /\ RaceIdle /\ Quiet

\* check_training(): check_failure raises in debug mode when every OCR pass failed.
CheckTrainingScreen ==
    /\ pc = "check_training"
    /\ Input
    /\ \E all_ocr_failed \in BOOLEAN :
        IF DEBUG_MODE /\ all_ocr_failed
        THEN Throw("RuntimeError", "raise")
        ELSE Goto("decide_training")
    /\ UNCHANGED <<checked, first_match, handled>>
    /\ OutsideLoop /\ RaceIdle /\ Quiet

\* do_train / do_rest, or find_and_do_race when training is bad.
DecideTraining ==
    /\ pc = "decide_training"
    /\ \E decision \in {"train", "rest", "race"} :
        IF decision = "race"
        THEN Call("FR", "training_race_ret") /\ NoInput /\ UNCHANGED handled
        ELSE Input /\ Continue("training")
    /\ UNCHANGED <<checked, first_match>>
    /\ OutsideLoop /\ RaceIdle /\ Quiet

TrainingRaceReturn ==
    /\ pc = "training_race_ret"
    /\ IF retval THEN NoInput ELSE Input
    /\ Continue("training")
    /\ UNCHANGED <<checked, first_match>>
    /\ OutsideLoop /\ RaceIdle /\ Quiet

\* ---- handle_event_choice (core/Ura/event_handling.py) ----
\* recheck of the choice icons before any analysis
HandleEventRecheck ==
    /\ pc = "HE"
    /\ \E recheck_count \in (IF TRUE \in OnScreen THEN 0..MaxChoices ELSE {0}) :
        IF recheck_count = 0
        THEN event_result' = EventResult(1, FALSE, 0) /\ Return(FALSE)
        ELSE event_result' = EventResult(1, FALSE, recheck_count) /\ Goto("HE_name")
    /\ UNCHANGED iterVars
    /\ UNCHANGED <<input_after_stop, input_result, last_failed_custom_race_day, custom_race_failed_day, day, event_failure_raised, fresh>>
    /\ OutsideLoop /\ RaceIdle /\ SameScreenshot

\* event name OCR, database lookup and choice analysis (inside the try block)
HandleEventName ==
    /\ pc = "HE_name"
    /\ \E outcome \in {"no_text", "error", "unknown", "known"},
          choices_found \in 0..MaxChoices, recommended \in 0..(MaxChoices + 1) :
        CASE outcome = "no_text" ->
               IF stop_on_event_failure
               THEN /\ Throw(EventDetectionFailed, "HE_except")
                    /\ event_failure_raised' = TRUE
                    /\ UNCHANGED event_result
               ELSE /\ Return(FALSE)
                    /\ UNCHANGED <<event_result, event_failure_raised>>
          [] outcome = "error" ->
               /\ Throw("Exception", "HE_except")
               /\ UNCHANGED <<event_result, event_failure_raised>>
          [] outcome = "unknown" ->
               /\ event_result' = EventResult(1, FALSE, choices_found)
               /\ Return(FALSE)
               /\ UNCHANGED event_failure_raised
          [] outcome = "known" ->
               /\ event_result' = EventResult(IF recommended > choices_found THEN 1 ELSE recommended,
                                              TRUE, choices_found)
               /\ Return(TRUE)
               /\ UNCHANGED event_failure_raised
    /\ UNCHANGED iterVars
    /\ UNCHANGED <<input_after_stop, input_result, last_failed_custom_race_day, custom_race_failed_day, day, fresh>>
    /\ OutsideLoop /\ RaceIdle /\ SameScreenshot

\* except Exception as e: re-raise "Event detection failed", else fall back to choice 1
HandleEventExcept ==
    /\ pc = "HE_except"
    /\ IF handle_event_choice_except(exc) = "handle"
       THEN /\ \E fallback_count \in 0..MaxChoices :
                 event_result' = EventResult(1, FALSE, fallback_count)
            /\ pc' = stack[Len(stack)]
            /\ stack' = SubSeq(stack, 1, Len(stack) - 1)
            /\ exc' = None
            /\ retval' = FALSE
            /\ UNCHANGED exit_reason
       ELSE Goto("raise") /\ UNCHANGED event_result
    /\ UNCHANGED iterVars
    /\ UNCHANGED <<input_after_stop, input_result, last_failed_custom_race_day, custom_race_failed_day, day, event_failure_raised, fresh>>
    /\ OutsideLoop /\ RaceIdle /\ SameScreenshot

\* ---- race handling (core/Unity/races_handling.py) ----
ReturnNone ==
    /\ pc' = stack[Len(stack)]
    /\ stack' = SubSeq(stack, 1, Len(stack) - 1)
    /\ UNCHANGED <<exc, retval, exit_reason>>

InRace == UNCHANGED <<checked, first_match, handled>> /\ OutsideLoop /\ Quiet

\* find_and_do_race: pick the best race of the year and run it
FindAndDoRace ==
    /\ pc = "FR"
    /\ \E outcome \in {"none", "not_found", "selected", "error"} :
        CASE outcome = "none" -> NoInput /\ Return(FALSE)
          [] outcome = "error" -> MaybeInput /\ Throw("Exception", "FR_except")
          [] outcome = "not_found" -> Input /\ Return(FALSE)
          [] outcome = "selected" -> Input /\ Call("ER", "FR_exec_ret")
    /\ InRace /\ RaceIdle

\* do_custom_race: run the race configured for the year
DoCustomRace ==
    /\ pc = "CR"
    /\ \E outcome \in {"none", "not_found", "selected", "error"} :
        CASE outcome = "none" -> NoInput /\ Return(FALSE)
          [] outcome = "error" -> MaybeInput /\ Throw("Exception", "FR_except")
          [] outcome = "not_found" -> Input /\ Return(FALSE)
          [] outcome = "selected" -> Input /\ Call("ER", "CR_exec_ret")
    /\ InRace /\ RaceIdle

\* return execute_race_after_selection()
RaceSearchReturn ==
    /\ pc \in {"FR_exec_ret", "CR_exec_ret"}
    /\ Return(retval)
    /\ NoInput
    /\ InRace /\ RaceIdle

\* except Exception as e: return False
RaceSearchExcept ==
    /\ pc = "FR_except"
    /\ IF find_and_do_race_except(exc) = "handle"
       THEN /\ pc' = stack[Len(stack)]
            /\ stack' = SubSeq(stack, 1, Len(stack) - 1)
            /\ exc' = None
            /\ retval' = FALSE
            /\ UNCHANGED exit_reason
       ELSE Goto("raise")
    /\ NoInput
    /\ InRace /\ RaceIdle

\* execute_race_after_selection: race button, race_prep(), after_race()
ExecuteRace ==
    /\ pc = "ER"
    /\ \E race_btn \in BOOLEAN :
        IF race_btn
        THEN MaybeInput /\ Call("RP1", "ER_prep_ret") /\ prep_i' = 0
        ELSE NoInput /\ Return(FALSE) /\ UNCHANGED prep_i
    /\ UNCHANGED <<after_i, day_i, race_failure_detected>>
    /\ InRace

ExecuteRacePrepReturn ==
    /\ pc = "ER_prep_ret"
    /\ Call("AR1", "ER_after_ret")
    /\ after_i' = 0
    /\ NoInput
    /\ UNCHANGED <<prep_i, day_i, race_failure_detected>>
    /\ InRace

ExecuteRaceAfterReturn ==
    /\ pc = "ER_after_ret"
    /\ Return(TRUE)
    /\ NoInput
    /\ InRace /\ RaceIdle

\* race_prep, first loop: tap until the View Results button shows
RacePrepWaitViewResults ==
    /\ pc = "RP1"
    /\ IF prep_i < MaxPrepAttempts
       THEN \E view_result_matches \in BOOLEAN :
              IF view_result_matches
              THEN Input /\ Goto("RP2") /\ prep_i' = 0
              ELSE Input /\ Goto("RP1") /\ prep_i' = prep_i + 1
       ELSE NoInput /\ ReturnNone /\ UNCHANGED prep_i
    /\ UNCHANGED <<after_i, day_i, race_failure_detected>>
    /\ InRace

\* race_prep, second loop: tap until the race has started
RacePrepWaitStart ==
    /\ pc = "RP2"
    /\ IF prep_i < MaxPrepAttempts
       THEN \E seen \in {"next", "gone", "view_results"} :
              CASE seen = "next" -> Input /\ ReturnNone /\ UNCHANGED prep_i
                [] seen = "gone" -> NoInput /\ ReturnNone /\ UNCHANGED prep_i
                [] seen = "view_results" -> Input /\ Goto("RP2") /\ prep_i' = prep_i + 1
       ELSE NoInput /\ ReturnNone /\ UNCHANGED prep_i
    /\ UNCHANGED <<after_i, day_i, race_failure_detected>>
    /\ InRace

\* handle_race_retry_if_failed: the clock icon marks a failed race
HandleRaceRetry ==
    /\ pc = "HR"
    /\ \E clock \in BOOLEAN, error \in BOOLEAN :
        IF ~clock
        THEN /\ Return(FALSE)
             /\ NoInput
             /\ UNCHANGED <<prep_i, race_failure_detected>>
        ELSE IF ~RETRY_RACE
        THEN /\ Throw("SystemExit", "HR_except")
             /\ race_failure_detected' = TRUE
             /\ NoInput
             /\ UNCHANGED prep_i
        ELSE IF error
        THEN /\ Throw("Exception", "HR_except")
             /\ MaybeInput
             /\ UNCHANGED <<prep_i, race_failure_detected>>
        ELSE /\ MaybeInput
             /\ Call("RP1", "HR_prep_ret")
             /\ prep_i' = 0
             /\ UNCHANGED race_failure_detected
    /\ UNCHANGED <<after_i, day_i>>
    /\ InRace

HandleRaceRetryPrepReturn ==
    /\ pc = "HR_prep_ret"
    /\ Return(TRUE)
    /\ NoInput
    /\ InRace /\ RaceIdle

\* except SystemExit: raise / except Exception: return False
HandleRaceRetryExcept ==
    /\ pc = "HR_except"
    /\ IF handle_race_retry_except(exc) = "handle"
       THEN /\ pc' = stack[Len(stack)]
            /\ stack' = SubSeq(stack, 1, Len(stack) - 1)
            /\ exc' = None
            /\ retval' = FALSE
            /\ UNCHANGED exit_reason
       ELSE Goto("raise")
    /\ NoInput
    /\ InRace /\ RaceIdle

\* after_race, first loop: wait for the Next button
AfterRaceWaitNext ==
    /\ pc = "AR1"
    /\ IF after_i < MaxAfterAttempts
       THEN \E seen \in {"next", "clock", "nothing"} :
              CASE seen = "next" -> Input /\ Goto("AR2") /\ after_i' = 0
                [] seen = "clock" -> NoInput /\ Call("HR", "AR1_retry_ret") /\ UNCHANGED after_i
                [] seen = "nothing" -> Input /\ Goto("AR1") /\ after_i' = after_i + 1
       ELSE NoInput /\ Goto("AR2") /\ after_i' = 0
    /\ UNCHANGED <<prep_i, day_i, race_failure_detected>>
    /\ InRace

\* for attempt in range(max_attempts): the next value of attempt comes from
\* the range iterator, whatever the body assigned to attempt
range_next_FromLoopVariable(iterated, assigned) == assigned + 1

range_next(iterated, assigned) == iterated + 1

\* attempt = -1; continue: the for loop goes on with its next iteration
AfterRaceRetryReturn ==
    /\ pc \in {"AR1_retry_ret", "AR2_retry_ret"}
    /\ IF pc = "AR1_retry_ret"
       THEN NoInput /\ Goto("AR1")
       ELSE MaybeInput /\ Goto("AR2")
    /\ after_i' = range_next(after_i, -1)
    /\ UNCHANGED <<prep_i, day_i, race_failure_detected>>
    /\ InRace

\* after_race, second loop: wait for the second Next button
AfterRaceWaitNext2 ==
    /\ pc = "AR2"
    /\ IF after_i < MaxAfterAttempts
       THEN \E seen \in {"next2", "clock", "nothing"} :
              CASE seen = "next2" -> Input /\ ReturnNone /\ UNCHANGED after_i
                [] seen = "clock" -> NoInput /\ Call("HR", "AR2_retry_ret") /\ UNCHANGED after_i
                [] seen = "nothing" -> Input /\ Goto("AR2") /\ after_i' = after_i + 1
       ELSE NoInput /\ ReturnNone /\ UNCHANGED after_i
    /\ UNCHANGED <<prep_i, day_i, race_failure_detected>>
    /\ InRace

\* race_day: race day button, race buttons, race_prep()
RaceDay ==
    /\ pc = "RD"
    /\ \E outcome \in {"no_button", "no_race_button", "clicked"} :
        CASE outcome = "no_button" -> NoInput /\ Return(FALSE) /\ UNCHANGED prep_i
          [] outcome = "no_race_button" -> Input /\ Return(FALSE) /\ UNCHANGED prep_i
          [] outcome = "clicked" -> Input /\ Call("RP1", "RD_prep_ret") /\ prep_i' = 0
    /\ UNCHANGED <<after_i, day_i, race_failure_detected>>
    /\ InRace

RaceDayPrepReturn ==
    /\ pc = "RD_prep_ret"
    /\ Goto("RD_loop")
    /\ day_i' = 0
    /\ NoInput
    /\ UNCHANGED <<prep_i, after_i, race_failure_detected>>
    /\ InRace

\* while retry_count < max_retries_per_race
RaceDayLoop ==
    /\ pc = "RD_loop"
    /\ IF day_i < MaxDayChecks
       THEN /\ day_i' = day_i + 1
            /\ \E seen \in {"clock", "next", "nothing"} :
                CASE seen = "clock" -> NoInput /\ Call("HR", "RD_retry_ret") /\ UNCHANGED after_i
                  [] seen = "next" -> NoInput /\ Call("AR1", "RD_after_ret") /\ after_i' = 0
                  [] seen = "nothing" -> Input /\ Goto("RD_loop") /\ UNCHANGED after_i
       ELSE /\ NoInput
            /\ Call("AR1", "RD_after_ret")
            /\ after_i' = 0
            /\ UNCHANGED day_i
    /\ UNCHANGED <<prep_i, race_failure_detected>>
    /\ InRace

RaceDayRetryReturn ==
    /\ pc = "RD_retry_ret"
    /\ Goto("RD_loop")
    /\ NoInput
    /\ InRace /\ RaceIdle

RaceDayAfterReturn ==
    /\ pc = "RD_after_ret"
    /\ Return(TRUE)
    /\ NoInput
    /\ InRace /\ RaceIdle

\* ---- exceptions ----
\* An exception leaves the innermost call: its except block takes it, or, with
\* no call left, it ends career_lobby and reaches main.
Raise ==
    /\ pc = "raise"
    /\ IF stack = << >>
       THEN /\ pc' = "done"
            /\ exit_reason' = exc
            /\ UNCHANGED <<stack, exc, retval>>
       ELSE /\ pc' = IF Handler(stack[Len(stack)]) = None THEN "raise"
                     ELSE Handler(stack[Len(stack)])
            /\ stack' = SubSeq(stack, 1, Len(stack) - 1)
            /\ UNCHANGED <<exc, retval, exit_reason>>
    /\ UNCHANGED iterVars
    /\ UNCHANGED <<input_after_stop, input_result>>
    /\ OutsideLoop /\ RaceIdle /\ Quiet

\* Ctrl+C while the loop runs
KeyboardInterrupt ==
    /\ pc \notin {"done", "raise", "idle", "event_except", "HE_except", "HR_except", "FR_except"}
    /\ Throw("KeyboardInterrupt", "raise")
    /\ UNCHANGED iterVars
    /\ UNCHANGED <<input_after_stop, input_result>>
    /\ OutsideLoop /\ RaceIdle /\ Quiet

\* the checks made before the lobby is confirmed
LobbyPolling == {"top", "complete_career", "claw", "ok", "event", "unity_cup", "inspiration",
                 "cancel", "close", "next", "lobby"}

\* the bridge is lost, or comes back, while the loop polls for the lobby
BridgeChange ==
    /\ pc \in LobbyPolling
    /\ \E b \in BridgeStates \ {bridge} : bridge' = b
    /\ UNCHANGED <<screenshot, input_result>>
    /\ UNCHANGED <<chooseVars, failureVars, scoreVars, matchVars, guiVars, decisionVars, restartVars, runVars, eventVars, opponentVars>>
    /\ UNCHANGED <<cfgVars, ctlVars, iterVars, fresh, last_failed_custom_race_day, day, event_result,
                   raceVars, histVars>>

\* ---- the loop as a specification ----
LoopIdle ==
    /\ mode = "ura"
    /\ RETRY_RACE = TRUE
    /\ stop_on_event_failure = FALSE
    /\ restart_enabled = FALSE
    /\ do_custom_race_enabled = FALSE
    /\ pc = "idle"
    /\ stack = << >>
    /\ exc = None
    /\ retval = FALSE
    /\ exit_reason = None
    /\ checked = << >>
    /\ first_match = None
    /\ acted = FALSE
    /\ handled = None
    /\ last_failed_custom_race_day = 0
    /\ custom_race_failed_day = 0
    /\ day = 1
    /\ event_result = EventResult(1, FALSE, 0)
    /\ prep_i = 0
    /\ after_i = 0
    /\ day_i = 0
    /\ race_failure_detected = FALSE
    /\ input_after_stop = FALSE
    /\ event_failure_raised = FALSE
    /\ fresh = {}
    /\ bridge = "up"
    /\ screenshot = None
    /\ input_result = NotCalled

LoopStart ==
    /\ mode \in Modes
    /\ RETRY_RACE \in BOOLEAN
    /\ stop_on_event_failure \in BOOLEAN
    /\ restart_enabled \in BOOLEAN
    /\ do_custom_race_enabled \in BOOLEAN
    /\ pc = "top"
    /\ stack = << >>
    /\ exc = None
    /\ retval = FALSE
    /\ exit_reason = None
    /\ checked = << >>
    /\ first_match = None
    /\ acted = FALSE
    /\ handled = None
    /\ last_failed_custom_race_day = 0
    /\ custom_race_failed_day = 0
    /\ day = 1
    /\ event_result = EventResult(1, FALSE, 0)
    /\ prep_i = 0
    /\ after_i = 0
    /\ day_i = 0
    /\ race_failure_detected = FALSE
    /\ input_after_stop = FALSE
    /\ event_failure_raised = FALSE
    /\ fresh = {}
    /\ bridge \in BridgeStates
    /\ screenshot = None
    /\ input_result = NotCalled

LoopNext ==
    \/ StartIteration
    \/ BridgeChange
    \/ CheckCompleteCareer
    \/ CompleteCareerReturn
    \/ CheckClaw
    \/ CheckOk
    \/ CheckEvent
    \/ EventReturn
    \/ EventExcept
    \/ CheckUnityCup
    \/ CheckInspiration
    \/ CheckCancel
    \/ CheckClose
    \/ CheckNext
    \/ CheckLobby
    \/ NewScreenshot
    \/ CheckInfirmary
    \/ ReadState
    \/ CheckRacePriority
    \/ RacePriorityReturn
    \/ CheckUraFinale
    \/ UraFinalePrepReturn
    \/ UraFinaleRetryReturn
    \/ UraFinaleAfterReturn
    \/ CheckRaceDay
    \/ RaceDayReturn
    \/ CheckCustomRace
    \/ CustomRaceReturn
    \/ CheckMood
    \/ CheckEnergy
    \/ CheckTraining
    \/ CheckTrainingScreen
    \/ DecideTraining
    \/ TrainingRaceReturn
    \/ HandleEventRecheck
    \/ HandleEventName
    \/ HandleEventExcept
    \/ FindAndDoRace
    \/ DoCustomRace
    \/ RaceSearchReturn
    \/ RaceSearchExcept
    \/ ExecuteRace
    \/ ExecuteRacePrepReturn
    \/ ExecuteRaceAfterReturn
    \/ RacePrepWaitViewResults
    \/ RacePrepWaitStart
    \/ HandleRaceRetry
    \/ HandleRaceRetryPrepReturn
    \/ HandleRaceRetryExcept
    \/ AfterRaceWaitNext
    \/ AfterRaceRetryReturn
    \/ AfterRaceWaitNext2
    \/ RaceDayLoop
    \/ RaceDay
    \/ RaceDayPrepReturn
    \/ RaceDayRetryReturn
    \/ RaceDayAfterReturn
    \/ Raise
    \/ KeyboardInterrupt


\* ------------------------------------------------------------------------
\* calculate_training_score (core/*/training_handling.py)
\* Points are kept in thousandths, the returned score in hundredths.
\* ------------------------------------------------------------------------
CardTypes == {"spd", "sta"}

BondLevels == 1..5

Cards == CardTypes \X BondLevels

\* support_detail: how many detected cards there are of each type and bond level
RECURSIVE CardCount(_, _)
CardCount(detail, cs) ==
    IF cs = {} THEN 0
    ELSE LET c == CHOOSE x \in cs : TRUE
         IN  detail[c] + CardCount(detail, cs \ {c})

SupportDetailInputs ==
    {d \in [Cards -> 0..MaxCards] : CardCount(d, Cards) <= MaxCards}

\* a points entry that is present but not a number
NotANumber == -2

DefaultRainbowPoints == 1000
DefaultLowBondPoints == 700
DefaultHighBondPoints == 0
DefaultHintPoints == 300
DefaultSpiritPoints == 500
DefaultSpiritExtraPoints == 1500
DefaultSpiritBurstPoints == 1000

ScoreFile(kind, rainbow, low, high, hint) ==
    [kind |-> kind, rainbow_support |-> rainbow, not_rainbow_support_low |-> low,
     not_rainbow_support_high |-> high, hint |-> hint]

\* training_score.json as the scorer may find it
ScoreFileInputs ==
    {ScoreFile(k, Absent, Absent, Absent, Absent) :
        k \in {"missing", "invalid_json", "unreadable", "not_object", "no_rules"}}
    \cup
    {ScoreFile("rules", r, l, h, t) :
        r \in {Absent, 1000, 500, NotANumber}, l \in {Absent, 707},
        h \in {Absent, 100}, t \in {Absent, 333}}

\* what the training tab of the GUI writes on autosave
SavedByGui == ScoreFile("rules", 1500, 700, 0, 300)

NoSpirit == [spirit_count |-> 0, spirit_burst_count |-> 0, spirit_training_extra_count |-> 0,
             finale |-> FALSE, burst_enabled |-> TRUE]

\* the Unity arguments: icon counts, the Finale year, the stat enabled for bursts
SpiritInputs ==
    {NoSpirit,
     [NoSpirit EXCEPT !.spirit_count = 1],
     [NoSpirit EXCEPT !.spirit_count = 1, !.spirit_training_extra_count = 1, !.finale = TRUE],
     [NoSpirit EXCEPT !.spirit_training_extra_count = 1, !.spirit_burst_count = 1],
     [NoSpirit EXCEPT !.spirit_burst_count = 1, !.burst_enabled = FALSE]}

\* open() and json.load(): which errors the except clause lets through
load_raises(file) == file.kind \in {"unreadable", "not_object"}

\* scoring_rules after the try block: the file's rules, {} or the defaults
scoring_rules(file) ==
    IF file.kind \in {"missing", "invalid_json"}
    THEN ScoreFile("rules", DefaultRainbowPoints, DefaultLowBondPoints,
                   DefaultHighBondPoints, DefaultHintPoints)
    ELSE file

\* scoring_rules.get(key, {}).get("points", default)
points(rules, key, default) ==
    IF rules[key] = Absent THEN default ELSE rules[key]

\* the rule one card is scored by
card_rule_StrictRainbow(card, type) ==
    IF card[1] = type /\ card[2] > 4 THEN "rainbow_support"
    ELSE IF card[2] < 4 THEN "not_rainbow_support_low"
    ELSE "not_rainbow_support_high"

card_rule(card, type) ==
    IF card[1] = type /\ card[2] >= 4 THEN "rainbow_support"
    ELSE IF card[2] < 4 THEN "not_rainbow_support_low"
    ELSE "not_rainbow_support_high"

rule_default_RainbowAsHint(key) ==
    CASE key = "rainbow_support" -> DefaultHintPoints
      [] key = "not_rainbow_support_low" -> DefaultLowBondPoints
      [] key = "not_rainbow_support_high" -> DefaultHighBondPoints
      [] key = "hint" -> DefaultHintPoints

rule_default(key) ==
    CASE key = "rainbow_support" -> DefaultRainbowPoints
      [] key = "not_rainbow_support_low" -> DefaultLowBondPoints
      [] key = "not_rainbow_support_high" -> DefaultHighBondPoints
      [] key = "hint" -> DefaultHintPoints

\* the rules the call adds points from
rules_used(detail, hint, type) ==
    {card_rule(c, type) : c \in {x \in Cards : detail[x] > 0}}
    \cup (IF hint THEN {"hint"} ELSE {})

RECURSIVE card_points(_, _, _, _)
card_points(detail, type, rules, cs) ==
    IF cs = {} THEN 0
    ELSE LET c == CHOOSE x \in cs : TRUE
             key == card_rule(c, type)
         IN  detail[c] * points(rules, key, rule_default(key))
             + card_points(detail, type, rules, cs \ {c})

\* the spirit bonuses of the Unity scorer
spirit_points(sp) ==
    (IF sp.spirit_count > 0 /\ ~sp.finale
     THEN DefaultSpiritPoints * sp.spirit_count ELSE 0)
    + (IF sp.spirit_training_extra_count > 0 /\ ~sp.finale
       THEN DefaultSpiritExtraPoints * sp.spirit_training_extra_count ELSE 0)
    + (IF sp.spirit_burst_count > 0 /\ sp.burst_enabled
       THEN DefaultSpiritBurstPoints * sp.spirit_burst_count ELSE 0)

\* round(score, 2): thousandths to hundredths, ties to even
round2(x) ==
    LET q == x \div 10
        r == x % 10
    IN  IF r < 5 THEN q
        ELSE IF r > 5 THEN q + 1
        ELSE IF q % 2 = 0 THEN q ELSE q + 1

Raised == [raised |-> TRUE, value |-> 0]

calculate_training_score(detail, hint, sp, type, file) ==
    IF load_raises(file) THEN Raised
    ELSE LET rules == scoring_rules(file)
         IN  IF \E key \in rules_used(detail, hint, type) : points(rules, key, 0) = NotANumber
             THEN Raised
             ELSE [raised |-> FALSE,
                   value |-> round2(card_points(detail, type, rules, Cards)
                                    + (IF hint THEN points(rules, "hint", DefaultHintPoints) ELSE 0)
                                    + spirit_points(sp))]

NoScore == [raised |-> FALSE, value |-> -1]

ScoreIdle ==
    /\ support_detail = [c \in Cards |-> 0]
    /\ hint_found = FALSE
    /\ training_type = "spd"
    /\ spirit = NoSpirit
    /\ score_mode = "ura"
    /\ score_file = ScoreFile("missing", Absent, Absent, Absent, Absent)
    /\ score = NoScore
    /\ first_score = NoScore
    /\ calls = 0
    /\ spc = "idle"

\* check_training is about to score one training
ScoreStart ==
    /\ support_detail \in SupportDetailInputs
    /\ hint_found \in BOOLEAN
    /\ training_type \in CardTypes
    /\ score_mode \in Modes
    /\ spirit \in (IF score_mode = "unity" THEN SpiritInputs ELSE {NoSpirit})
    /\ score_file \in ScoreFileInputs
    /\ score = NoScore
    /\ first_score = NoScore
    /\ calls = 0
    /\ spc = "call"

CallScore ==
    /\ spc = "call"
    /\ score' = calculate_training_score(support_detail, hint_found, spirit, training_type, score_file)
    /\ first_score' = IF calls = 0 THEN score' ELSE first_score
    /\ calls' = calls + 1
    /\ spc' = "returned"
    /\ UNCHANGED <<support_detail, hint_found, training_type, spirit, score_mode, score_file>>
    /\ UNCHANGED <<chooseVars, failureVars, loopVars, matchVars, guiVars, decisionVars, restartVars, runVars, eventVars, opponentVars>>

\* the same training is scored once more with the same arguments
ScoreAgain ==
    /\ spc = "returned"
    /\ ~score.raised
    /\ calls = 1
    /\ spc' = "call"
    /\ UNCHANGED <<support_detail, hint_found, training_type, spirit, score_mode, score_file>>
    /\ UNCHANGED <<score, first_score, calls>>
    /\ UNCHANGED <<chooseVars, failureVars, loopVars, matchVars, guiVars, decisionVars, restartVars, runVars, eventVars, opponentVars>>

\* the GUI autosaves the training tab while the bot runs
SaveTrainingScore ==
    /\ spc = "returned"
    /\ ~score.raised
    /\ calls = 1
    /\ score_file # SavedByGui
    /\ score_file' = SavedByGui
    /\ spc' = "call"
    /\ UNCHANGED <<support_detail, hint_found, training_type, spirit, score_mode>>
    /\ UNCHANGED <<score, first_score, calls>>
    /\ UNCHANGED <<chooseVars, failureVars, loopVars, matchVars, guiVars, decisionVars, restartVars, runVars, eventVars, opponentVars>>

ScoreNext == CallScore \/ ScoreAgain \/ SaveTrainingScore

\* ------------------------------------------------------------------------
\* match_template (utils/recognizer.py)
\* The screen is one row of MaxPositions columns, the template one column wide;
\* correlations and the confidence are in hundredths.
\* ------------------------------------------------------------------------
Columns == 1..MaxPositions

Correlations == {50, 85, 95}

Confidences == {80, 90}

NoRegion == << >>

RegionInputs == {NoRegion} \cup ((0..MaxPositions) \X (0..MaxPositions))

TemplateFiles == {"image", "missing", "unloadable"}

\* screenshot_cv[y:y+h, x:x+w]: the columns left by the crop (slices clamp)
cropped(r) ==
    IF r = NoRegion THEN Columns
    ELSE {c \in Columns : r[1] < c /\ c <= r[1] + r[2]}

\* np.where(result >= confidence): the columns of the crop that reach the threshold
locations(r, res, conf) == {c \in cropped(r) : res[c] >= conf}

\* the matches in the order zip(*locations[::-1]) yields them, as 0-based x
RECURSIVE matches_of(_)
matches_of(cs) ==
    IF cs = {} THEN << >>
    ELSE LET c == CHOOSE x \in cs : \A y \in cs : x <= y
         IN  <<c - 1>> \o matches_of(cs \ {c})

\* except Exception as e: log_error(...); return []
match_template_except_Reraise(e) ==
    "propagate"

match_template_except(e) ==
    IF IsException(e) THEN "return_empty" ELSE "propagate"

MatchIdle ==
    /\ template_file = "image"
    /\ mt_screenshot = "image"
    /\ region = NoRegion
    /\ confidence = 80
    /\ result = [c \in Columns |-> 50]
    /\ matches = << >>
    /\ mt_exc = None
    /\ feature = None
    /\ mt_pc = "idle"

\* a caller is about to call match_template(screenshot, template_path, confidence, region)
MatchStart ==
    /\ template_file \in TemplateFiles
    /\ mt_screenshot \in {"image", None}
    /\ region \in RegionInputs
    /\ confidence \in Confidences
    /\ result \in [Columns -> Correlations]
    /\ matches = << >>
    /\ mt_exc = None
    /\ feature = None
    /\ mt_pc = "resolve"

MatchFrame == UNCHANGED <<template_file, mt_screenshot, region, confidence, result, feature>>

OutsideMatch == UNCHANGED <<chooseVars, failureVars, loopVars, scoreVars, guiVars, decisionVars, restartVars, runVars, eventVars, opponentVars>>

\* if not os.path.exists(resolved_path): return []
MatchResolve ==
    /\ mt_pc = "resolve"
    /\ mt_pc' = IF template_file = "missing" THEN "returned" ELSE "load"
    /\ matches' = << >>
    /\ UNCHANGED mt_exc
    /\ MatchFrame /\ OutsideMatch

\* template = cv2.imread(...); if template is None: return []
MatchLoad ==
    /\ mt_pc = "load"
    /\ mt_pc' = IF template_file = "unloadable" THEN "returned" ELSE "convert"
    /\ matches' = << >>
    /\ UNCHANGED mt_exc
    /\ MatchFrame /\ OutsideMatch

\* cv2.cvtColor(np.array(screenshot), ...) and the crop to the region
MatchConvert ==
    /\ mt_pc = "convert"
    /\ IF mt_screenshot = None
       THEN mt_exc' = "Exception" /\ mt_pc' = "except"
       ELSE mt_pc' = "search" /\ UNCHANGED mt_exc
    /\ UNCHANGED matches
    /\ MatchFrame /\ OutsideMatch

\* cv2.matchTemplate raises when the crop is smaller than the template;
\* otherwise the locations over the threshold are returned
MatchSearch ==
    /\ mt_pc = "search"
    /\ IF cropped(region) = {}
       THEN mt_exc' = "Exception" /\ mt_pc' = "except" /\ UNCHANGED matches
       ELSE /\ matches' = matches_of(locations(region, result, confidence))
            /\ mt_pc' = "returned"
            /\ UNCHANGED mt_exc
    /\ MatchFrame /\ OutsideMatch

MatchExcept ==
    /\ mt_pc = "except"
    /\ IF match_template_except(mt_exc) = "return_empty"
       THEN matches' = << >> /\ mt_exc' = None /\ mt_pc' = "returned"
       ELSE mt_pc' = "raised" /\ UNCHANGED <<matches, mt_exc>>
    /\ MatchFrame /\ OutsideMatch

\* the caller: if <state>_matches: ... else go on to the next check
MatchCaller ==
    /\ mt_pc = "returned"
    /\ feature' = IF matches # << >> THEN "present" ELSE "absent"
    /\ mt_pc' = "done"
    /\ UNCHANGED <<template_file, mt_screenshot, region, confidence, result, matches, mt_exc>>
    /\ OutsideMatch

MatchNext ==
    \/ MatchResolve
    \/ MatchLoad
    \/ MatchConvert
    \/ MatchSearch
    \/ MatchExcept
    \/ MatchCaller

\* ------------------------------------------------------------------------
\* BotController (gui/bot_controller.py): the GUI thread, the bot thread
\* (run_bot), the status update thread and the log monitor thread.
\* One run of the bot is followed.
\* ------------------------------------------------------------------------
Threads == {"main", "bot", "status", "monitor"}

Fields == {"bot_running", "bot_process", "bot_thread", "log_monitor_thread", "status_update_thread",
           "log_queue", "status_queue", "current_status", "main_window.bot_running"}

\* what a stdout line is to the controller: a log line, a log line carrying
\* status ("Year: ..."), a line with an unwanted pattern, a blank line
LineKinds == {"log", "status", "unwanted", "blank"}

Lines == (1..MaxLines) \X LineKinds

should_display_output(line) == line[2] \notin {"unwanted", "blank"}

\* field accesses of a step of thread t
Access(t, reads, writes) ==
    accesses' = accesses \cup {<<t, f, "r">> : f \in reads} \cup {<<t, f, "w">> : f \in writes}

OutsideGui == UNCHANGED <<chooseVars, failureVars, loopVars, scoreVars, matchVars, decisionVars, restartVars, runVars, eventVars, opponentVars>>

GuiIdle ==
    /\ bot_running = FALSE
    /\ bot_process = None
    /\ process_alive = FALSE
    /\ pipe = << >>
    /\ emitted = << >>
    /\ log_queue = << >>
    /\ status_queue = << >>
    /\ gui_log = << >>
    /\ window_bot_running = FALSE
    /\ main_pc = "idle"
    /\ bot_pc = "idle"
    /\ monitor_pc = "idle"
    /\ accesses = {}

\* __init__ has set the fields and started the status update thread; the
\* accesses are recorded from here on
GuiStart ==
    /\ bot_running = FALSE
    /\ bot_process = None
    /\ process_alive = FALSE
    /\ pipe = << >>
    /\ emitted = << >>
    /\ log_queue = << >>
    /\ status_queue = << >>
    /\ gui_log = << >>
    /\ window_bot_running = FALSE
    /\ main_pc = "ready"
    /\ bot_pc = "idle"
    /\ monitor_pc = "idle"
    /\ accesses = {}

\* start_bot, called by main_window.start_bot on the GUI thread
StartBot ==
    /\ main_pc = "ready"
    /\ bot_pc = "idle"
    /\ ~bot_running
    /\ bot_running' = TRUE
    /\ window_bot_running' = TRUE
    /\ bot_pc' = "popen"
    /\ monitor_pc' = "run"
    /\ Access("main", {"bot_running"},
              {"bot_running", "bot_thread", "log_monitor_thread", "main_window.bot_running"})
    /\ UNCHANGED <<bot_process, process_alive, pipe, emitted, log_queue, status_queue, gui_log, main_pc>>
    /\ OutsideGui

\* stop_bot up to bot_process.terminate() and wait()
StopBotTerminate ==
    /\ main_pc = "ready"
    /\ bot_running
    /\ bot_running' = FALSE
    /\ process_alive' = IF bot_process # None THEN FALSE ELSE process_alive
    /\ main_pc' = "stopping"
    /\ Access("main", {"bot_running", "bot_process"}, {"bot_running"})
    /\ UNCHANGED <<bot_process, pipe, emitted, log_queue, status_queue, gui_log, window_bot_running,
                   bot_pc, monitor_pc>>
    /\ OutsideGui

\* stop_bot: finally self.bot_process = None, the joins, main_window.bot_running = False
StopBotFinish ==
    /\ main_pc = "stopping"
    /\ bot_process' = None
    /\ window_bot_running' = FALSE
    /\ main_pc' = "ready"
    /\ Access("main", {"bot_thread", "log_monitor_thread"}, {"bot_process", "main_window.bot_running"})
    /\ UNCHANGED <<bot_running, process_alive, pipe, emitted, log_queue, status_queue, gui_log,
                   bot_pc, monitor_pc>>
    /\ OutsideGui

\* run_bot: self.bot_process = subprocess.Popen(...)
Popen ==
    /\ bot_pc = "popen"
    /\ bot_process' = "Popen"
    /\ process_alive' = TRUE
    /\ bot_pc' = "loop"
    /\ Access("bot", {}, {"bot_process"})
    /\ UNCHANGED <<bot_running, pipe, emitted, log_queue, status_queue, gui_log, window_bot_running,
                   main_pc, monitor_pc>>
    /\ OutsideGui

\* the subprocess writes a line to its stdout
SubprocessWrites ==
    /\ process_alive
    /\ Len(emitted) < MaxLines
    /\ \E k \in LineKinds :
        /\ emitted' = Append(emitted, <<Len(emitted) + 1, k>>)
        /\ pipe' = Append(pipe, <<Len(emitted) + 1, k>>)
    /\ UNCHANGED <<bot_running, bot_process, process_alive, log_queue, status_queue, gui_log,
                   window_bot_running, main_pc, bot_pc, monitor_pc, accesses>>
    /\ OutsideGui

\* the subprocess exits by itself
SubprocessExits ==
    /\ process_alive
    /\ process_alive' = FALSE
    /\ UNCHANGED <<bot_running, bot_process, pipe, emitted, log_queue, status_queue, gui_log,
                   window_bot_running, main_pc, bot_pc, monitor_pc, accesses>>
    /\ OutsideGui

\* while self.bot_running and self.bot_process and self.bot_process.poll() is None
ReadLoopCondition ==
    /\ bot_pc = "loop"
    /\ bot_pc' = IF bot_running /\ bot_process # None /\ process_alive THEN "readline" ELSE "finally"
    /\ Access("bot", {"bot_running", "bot_process"}, {})
    /\ UNCHANGED <<bot_running, bot_process, process_alive, pipe, emitted, log_queue, status_queue,
                   gui_log, window_bot_running, main_pc, monitor_pc>>
    /\ OutsideGui

\* output = self.bot_process.stdout.readline(); process_bot_output(output.strip()).
\* readline blocks until a line or the end of the stream; without the process
\* object the AttributeError is caught and the loop is left.
ReadLine ==
    /\ bot_pc = "readline"
    /\ IF bot_process = None
       THEN /\ bot_pc' = "finally"
            /\ Access("bot", {"bot_process"}, {})
            /\ UNCHANGED <<pipe, log_queue, status_queue>>
       ELSE IF pipe # << >>
       THEN /\ pipe' = Tail(pipe)
            /\ log_queue' = IF should_display_output(Head(pipe)) THEN Append(log_queue, Head(pipe))
                            ELSE log_queue
            /\ status_queue' = IF Head(pipe)[2] = "status" THEN Append(status_queue, Head(pipe)[1])
                               ELSE status_queue
            /\ bot_pc' = "loop"
            /\ Access("bot", {"bot_process"} \cup (IF Head(pipe)[2] = "status" THEN {"current_status"} ELSE {}),
                      (IF should_display_output(Head(pipe)) THEN {"log_queue"} ELSE {})
                      \cup (IF Head(pipe)[2] = "status" THEN {"current_status", "status_queue"} ELSE {}))
       ELSE /\ ~process_alive
            /\ bot_pc' = "loop"
            /\ Access("bot", {"bot_process"}, {})
            /\ UNCHANGED <<pipe, log_queue, status_queue>>
    /\ UNCHANGED <<bot_running, bot_process, process_alive, emitted, gui_log, window_bot_running,
                   main_pc, monitor_pc>>
    /\ OutsideGui

\* finally: terminate what is left, self.bot_running = False, main_window.bot_running = False
RunBotFinally ==
    /\ bot_pc = "finally"
    /\ process_alive' = IF bot_process # None THEN FALSE ELSE process_alive
    /\ bot_process' = None
    /\ bot_running' = FALSE
    /\ window_bot_running' = FALSE
    /\ bot_pc' = "finished"
    /\ Access("bot", {"bot_process"}, {"bot_process", "bot_running", "main_window.bot_running"})
    /\ UNCHANGED <<pipe, emitted, log_queue, status_queue, gui_log, main_pc, monitor_pc>>
    /\ OutsideGui

\* what the status thread reads: the copy update_status put on the queue
status_update_reads_NoCopy ==
    {"status_queue", "current_status"}

status_update_reads ==
    {"status_queue"}

\* status_update_loop: status = self.status_queue.get_nowait()
StatusUpdate ==
    /\ status_queue # << >>
    /\ status_queue' = Tail(status_queue)
    /\ Access("status", status_update_reads, {"status_queue"})
    /\ UNCHANGED <<bot_running, bot_process, process_alive, pipe, emitted, log_queue, gui_log,
                   window_bot_running, main_pc, bot_pc, monitor_pc>>
    /\ OutsideGui

\* status_update_loop: log_entry = self.log_queue.get_nowait();
\* root.after(0, self.add_log_to_gui, log_entry)
LogUpdate ==
    /\ log_queue # << >>
    /\ gui_log' = Append(gui_log, Head(log_queue))
    /\ log_queue' = Tail(log_queue)
    /\ Access("status", {"log_queue"}, {"log_queue"})
    /\ UNCHANGED <<bot_running, bot_process, process_alive, pipe, emitted, status_queue,
                   window_bot_running, main_pc, bot_pc, monitor_pc>>
    /\ OutsideGui

\* monitor_bot_logs: while self.bot_running: time.sleep(0.1)
MonitorBotLogs ==
    /\ monitor_pc = "run"
    /\ monitor_pc' = IF bot_running THEN "run" ELSE "finished"
    /\ Access("monitor", {"bot_running"}, {})
    /\ UNCHANGED <<bot_running, bot_process, process_alive, pipe, emitted, log_queue, status_queue,
                   gui_log, window_bot_running, main_pc, bot_pc>>
    /\ OutsideGui

GuiNext ==
    \/ StartBot
    \/ StopBotTerminate
    \/ StopBotFinish
    \/ Popen
    \/ SubprocessWrites
    \/ SubprocessExits
    \/ ReadLoopCondition
    \/ ReadLine
    \/ RunBotFinally
    \/ StatusUpdate
    \/ LogUpdate
    \/ MonitorBotLogs

\* ------------------------------------------------------------------------
\* career_lobby: the training decision at the end of an iteration
\* (core/Ura/execute.py and core/Unity/execute.py)
\* ------------------------------------------------------------------------
\* the training section of the configuration, as far as the decision reads it
DecisionConfigInputs ==
    { [maximum_failure |-> mf, min_score |-> ms, priority_stat |-> AbsentList] :
        mf \in {Absent, 50, 100},
        ms \in { [kind |-> "absent", num |-> 0, dict |-> EmptyDict, min_wit_score |-> Absent],
                 [kind |-> "num", num |-> 70, dict |-> EmptyDict, min_wit_score |-> Absent] } }

DecisionStatsInputs ==
    { EmptyDict, [k \in Stats |-> IF k = "spd" THEN 1200 ELSE 500] }

\* training_config = {"maximum_failure": ..., "min_score": min_score_config, "priority_stat": ...}
training_config(cfg) ==
    [maximum_failure |-> max_failure_of(cfg),
     min_score |-> [kind |-> "dict", num |-> 0, dict |-> min_scores(cfg), min_wit_score |-> Absent],
     priority_stat |-> Listed(priority_stat_of(cfg))]

relaxed_config_NoCeiling(tc) ==
    [tc EXCEPT !.min_score = [kind |-> "dict", num |-> 0, dict |-> [k \in Stats |-> 0],
                              min_wit_score |-> Absent],
               !.maximum_failure = 100]

\* relaxed_config = dict(training_config); relaxed_config['min_score'] = {every stat: 0.0}
relaxed_config(tc) ==
    [tc EXCEPT !.min_score = [kind |-> "dict", num |-> 0, dict |-> [k \in Stats |-> 0],
                              min_wit_score |-> Absent]]

\* core/*/logic.py: all_training_unsafe(results, maximum_failure)
all_training_unsafe(results, maximum_failure) ==
    \A stat \in DOMAIN results : ~(results[stat].failure <= maximum_failure)

\* results_training.get('wit', {}).get('score', 0)
wit_score(results) ==
    IF "wit" \in DOMAIN results THEN results["wit"].score ELSE 0

\* do_train(train, already_on_training_screen): the training it clicks, None
\* when go_to_training fails
do_train(train, already_on_training_screen, go_to_training) ==
    IF already_on_training_screen \/ go_to_training THEN train ELSE None

\* the keyword the fallback branches pass to do_train
already_on_training_screen(m, branch) ==
    m = "unity" /\ branch \in {"all_unsafe", "no_races"}

OutsideDecision ==
    UNCHANGED <<failureVars, loopVars, scoreVars, matchVars, guiVars, restartVars, runVars, eventVars, opponentVars,
                training_results, config, current_stats, STAT_CAPS, cpc,
                decision_mode, do_race_when_bad_training, racing_available>>

DecisionIdle ==
    /\ decision_mode = "ura"
    /\ do_race_when_bad_training = TRUE
    /\ racing_available = TRUE
    /\ fallback_training = None
    /\ trained = None
    /\ lobby_action = None
    /\ decision_path = None
    /\ dpc = "idle"

\* check_training has returned results_training
DecisionStart ==
    /\ training_results \in TrainingResultsInputs
    /\ config \in DecisionConfigInputs
    /\ current_stats \in DecisionStatsInputs
    /\ STAT_CAPS = EmptyDict
    /\ best_training = None
    /\ cpc = "idle"
    /\ decision_mode \in Modes
    /\ do_race_when_bad_training \in BOOLEAN
    /\ racing_available \in BOOLEAN
    /\ fallback_training = None
    /\ trained = None
    /\ lobby_action = None
    /\ decision_path = None
    /\ dpc = "choose"

Decide(action, path) ==
    /\ lobby_action' = action
    /\ decision_path' = path
    /\ dpc' = "done"

\* fallback_training = choose_best_training(results_training, relaxed_config, current_stats)
\* and what follows it in the branch
RelaxedSelection(branch) ==
    LET fallback == choose_best_training(training_results, relaxed_config(training_config(config)),
                                         current_stats, STAT_CAPS)
    IN /\ fallback_training' = fallback
       /\ IF fallback # None
          THEN \E go_to_training \in BOOLEAN :
                   LET clicked == do_train(fallback,
                                           already_on_training_screen(decision_mode, branch),
                                           go_to_training)
                   IN /\ trained' = clicked
                      /\ Decide(IF clicked # None THEN "train" ELSE "nothing", branch)
          ELSE /\ trained' = None
               /\ Decide("rest", branch)

\* best_training = choose_best_training(results_training, training_config, current_stats)
ChooseBestTraining ==
    /\ dpc = "choose"
    /\ best_training' = choose_best_training(training_results, training_config(config),
                                             current_stats, STAT_CAPS)
    /\ IF best_training' # None
       THEN /\ trained' = do_train(best_training', TRUE, TRUE)
            /\ Decide("train", "best")
       ELSE /\ dpc' = "no_suitable"
            /\ UNCHANGED <<trained, lobby_action, decision_path>>
    /\ UNCHANGED fallback_training
    /\ OutsideDecision

\* race prioritization disabled: rest
RacePrioritizationDisabled ==
    /\ dpc = "no_suitable"
    /\ ~do_race_when_bad_training
    /\ Decide("rest", "race_disabled")
    /\ UNCHANGED <<best_training, fallback_training, trained>>
    /\ OutsideDecision

\* if all_training_unsafe(results_training, max_failure)
AllTrainingUnsafe ==
    /\ dpc = "no_suitable"
    /\ do_race_when_bad_training
    /\ all_training_unsafe(training_results, training_config(config).maximum_failure)
    /\ IF wit_score(training_results) < 100
       THEN /\ Decide("rest", "all_unsafe")
            /\ UNCHANGED <<fallback_training, trained>>
       ELSE RelaxedSelection("all_unsafe")
    /\ UNCHANGED best_training
    /\ OutsideDecision

\* if not is_racing_available(year)
NoRacesAvailable ==
    /\ dpc = "no_suitable"
    /\ do_race_when_bad_training
    /\ ~all_training_unsafe(training_results, training_config(config).maximum_failure)
    /\ ~racing_available
    /\ RelaxedSelection("no_races")
    /\ UNCHANGED best_training
    /\ OutsideDecision

\* race_found = find_and_do_race(): True
TrainingRaceFound ==
    /\ dpc = "no_suitable"
    /\ do_race_when_bad_training
    /\ ~all_training_unsafe(training_results, training_config(config).maximum_failure)
    /\ racing_available
    /\ Decide("race", "race_found")
    /\ UNCHANGED <<best_training, fallback_training, trained>>
    /\ OutsideDecision

\* race_found = find_and_do_race(): False
TrainingRaceNotFound ==
    /\ dpc = "no_suitable"
    /\ do_race_when_bad_training
    /\ ~all_training_unsafe(training_results, training_config(config).maximum_failure)
    /\ racing_available
    /\ RelaxedSelection("race_not_found")
    /\ UNCHANGED best_training
    /\ OutsideDecision

DecisionNext ==
    \/ ChooseBestTraining
    \/ RacePrioritizationDisabled
    \/ AllTrainingUnsafe
    \/ NoRacesAvailable
    \/ TrainingRaceFound
    \/ TrainingRaceNotFound

\* ------------------------------------------------------------------------
\* core/Unity/restart_career.py: run_restart_workflow
\* ------------------------------------------------------------------------
FansRequirements == {0, 1, 3}

should_continue_restarting_AnyRequirement(count, max_times, fans, requirement) ==
    ~(count >= max_times) /\ ~(fans >= requirement)

\* should_continue_restarting(...)[0]
should_continue_restarting(count, max_times, fans, requirement) ==
    IF count >= max_times THEN FALSE
    ELSE IF requirement > 0 /\ fans >= requirement THEN FALSE
    ELSE TRUE

OutsideRestart ==
    UNCHANGED <<chooseVars, failureVars, loopVars, scoreVars, matchVars, guiVars, decisionVars, runVars, eventVars, opponentVars,
                workflow_enabled, max_restart_times, total_fans_requirement>>

NoCycle == [success |-> FALSE, new_restart_count |-> 0, new_total_fans |-> 0]

RestartIdle ==
    /\ workflow_enabled = FALSE
    /\ max_restart_times = 0
    /\ total_fans_requirement = 0
    /\ current_restart_count = 0
    /\ total_fans_acquired = 0
    /\ cycle_result = NoCycle
    /\ fans_counted = 0
    /\ cycle_failure = None
    /\ workflow_result = None
    /\ rw_pc = "idle"

\* restart_config = load_restart_config()
RestartStart ==
    /\ workflow_enabled \in BOOLEAN
    /\ max_restart_times \in 0..MaxRestartTimes
    /\ total_fans_requirement \in FansRequirements
    /\ current_restart_count = 0
    /\ total_fans_acquired = 0
    /\ cycle_result = NoCycle
    /\ fans_counted = 0
    /\ cycle_failure = None
    /\ workflow_result = None
    /\ rw_pc = "start"

\* if not restart_enabled: return False; current_restart_count = 0; total_fans_acquired = 0
RestartEnabledCheck ==
    /\ rw_pc = "start"
    /\ IF ~workflow_enabled
       THEN workflow_result' = "False" /\ rw_pc' = "done"
       ELSE UNCHANGED workflow_result /\ rw_pc' = "loop"
    /\ UNCHANGED <<current_restart_count, total_fans_acquired, cycle_result, fans_counted, cycle_failure>>
    /\ OutsideRestart

\* while True: should_continue, reason = should_continue_restarting(...); if not should_continue: break
RestartLoopTest ==
    /\ rw_pc = "loop"
    /\ rw_pc' = IF should_continue_restarting(current_restart_count, max_restart_times,
                                              total_fans_acquired, total_fans_requirement)
                THEN "cycle" ELSE "end"
    /\ UNCHANGED <<current_restart_count, total_fans_acquired, cycle_result, fans_counted, cycle_failure,
                   workflow_result>>
    /\ OutsideRestart

\* execute_restart_cycle up to the end of complete_career
CompleteCareer ==
    /\ rw_pc = "cycle"
    /\ \E run_fans \in 0..MaxRunFans, outcome \in {"finished", "not_finished", "raised"} :
        LET total == total_fans_acquired + run_fans
        IN IF outcome = "raised"
           THEN \* take_screenshot / OCR error: nothing up to main catches it
                /\ rw_pc' = "done"
                /\ workflow_result' = "raised"
                /\ cycle_failure' = "raised"
                /\ UNCHANGED <<cycle_result, fans_counted>>
           ELSE /\ fans_counted' = total
                /\ UNCHANGED workflow_result
                /\ IF ~should_continue_restarting(current_restart_count, max_restart_times,
                                                  total, total_fans_requirement)
                   THEN \* complete_career returns False, execute_restart_cycle hands back its arguments
                        /\ cycle_result' = [success |-> FALSE,
                                            new_restart_count |-> current_restart_count,
                                            new_total_fans |-> total_fans_acquired]
                        /\ cycle_failure' = None
                        /\ rw_pc' = "cycle_ret"
                   ELSE IF outcome = "not_finished"
                   THEN /\ cycle_result' = [success |-> FALSE,
                                            new_restart_count |-> current_restart_count,
                                            new_total_fans |-> total_fans_acquired]
                        /\ cycle_failure' = "finish_career_completion"
                        /\ rw_pc' = "cycle_ret"
                   ELSE /\ cycle_result' = [success |-> TRUE,
                                            new_restart_count |-> current_restart_count + 1,
                                            new_total_fans |-> total]
                        /\ cycle_failure' = None
                        /\ rw_pc' = "start_career"
    /\ UNCHANGED <<current_restart_count, total_fans_acquired>>
    /\ OutsideRestart

\* if not start_career(): return False, new_restart_count, new_total_fans
StartCareer ==
    /\ rw_pc = "start_career"
    /\ \E started \in BOOLEAN :
        /\ cycle_result' = [cycle_result EXCEPT !.success = started]
        /\ cycle_failure' = IF started THEN None ELSE "start_career"
    /\ rw_pc' = "cycle_ret"
    /\ UNCHANGED <<current_restart_count, total_fans_acquired, fans_counted, workflow_result>>
    /\ OutsideRestart

\* if not success: break (after either log line); else update the state for the next iteration
RestartCycleReturn ==
    /\ rw_pc = "cycle_ret"
    /\ IF ~cycle_result.success
       THEN /\ rw_pc' = "end"
            /\ UNCHANGED <<current_restart_count, total_fans_acquired>>
       ELSE /\ rw_pc' = "loop"
            /\ current_restart_count' = cycle_result.new_restart_count
            /\ total_fans_acquired' = cycle_result.new_total_fans
    /\ UNCHANGED <<cycle_result, fans_counted, cycle_failure, workflow_result>>
    /\ OutsideRestart

\* return True
RestartWorkflowReturn ==
    /\ rw_pc = "end"
    /\ workflow_result' = "True"
    /\ rw_pc' = "done"
    /\ UNCHANGED <<current_restart_count, total_fans_acquired, cycle_result, fans_counted, cycle_failure>>
    /\ OutsideRestart

RestartNext ==
    \/ RestartEnabledCheck
    \/ RestartLoopTest
    \/ CompleteCareer
    \/ StartCareer
    \/ RestartCycleReturn
    \/ RestartWorkflowReturn

\* ------------------------------------------------------------------------
\* gui/bot_controller.py: several runs of the bot (start_bot, stop_bot,
\* start_bot, ...), each with its own reader thread and subprocess
\* ------------------------------------------------------------------------
Runs == 1..MaxRuns

ProcessNames == <<"Popen1", "Popen2", "Popen3", "Popen4">>

\* the subprocess.Popen object of run r
Process(r) == ProcessNames[r]

OutsideRuns ==
    UNCHANGED <<chooseVars, failureVars, loopVars, scoreVars, matchVars, decisionVars, restartVars,
                eventVars, opponentVars,
                process_alive, pipe, emitted, log_queue, status_queue, gui_log, bot_pc, monitor_pc,
                accesses>>

RunIdle ==
    /\ run_count = 0
    /\ reader_pc = [r \in Runs |-> "idle"]
    /\ live = {}
    /\ read_from = {}

\* self.bot_thread.join(timeout=2): returns when the thread has finished or
\* the two seconds have passed, whichever comes first
join(r) == TRUE

\* start_bot: if self.bot_running: return; self.bot_running = True; Thread(target=self.run_bot).start()
StartBotRun ==
    /\ main_pc = "ready"
    /\ ~bot_running
    /\ run_count < MaxRuns
    /\ bot_running' = TRUE
    /\ window_bot_running' = TRUE
    /\ run_count' = run_count + 1
    /\ reader_pc' = [reader_pc EXCEPT ![run_count + 1] = "popen"]
    /\ UNCHANGED <<bot_process, main_pc, live, read_from>>
    /\ OutsideRuns

\* stop_bot: self.bot_running = False; self.bot_process.terminate(), wait()
StopBotRunTerminate ==
    /\ main_pc = "ready"
    /\ bot_running
    /\ bot_running' = FALSE
    /\ live' = IF bot_process # None THEN live \ {bot_process} ELSE live
    /\ main_pc' = "stopping"
    /\ UNCHANGED <<bot_process, window_bot_running, run_count, reader_pc, read_from>>
    /\ OutsideRuns

\* stop_bot: finally self.bot_process = None; the joins; main_window.bot_running = False
StopBotRunFinish ==
    /\ main_pc = "stopping"
    /\ join(run_count)
    /\ bot_process' = None
    /\ window_bot_running' = FALSE
    /\ main_pc' = "ready"
    /\ UNCHANGED <<bot_running, run_count, reader_pc, live, read_from>>
    /\ OutsideRuns

\* run_bot of run r: self.bot_process = subprocess.Popen(...)
ReaderPopen(r) ==
    /\ reader_pc[r] = "popen"
    /\ bot_process' = Process(r)
    /\ live' = live \cup {Process(r)}
    /\ reader_pc' = [reader_pc EXCEPT ![r] = "loop"]
    /\ UNCHANGED <<bot_running, window_bot_running, main_pc, run_count, read_from>>
    /\ OutsideRuns

\* while self.bot_running and self.bot_process and self.bot_process.poll() is None
ReaderLoopCondition(r) ==
    /\ reader_pc[r] = "loop"
    /\ reader_pc' = [reader_pc EXCEPT ![r] =
                        IF bot_running /\ bot_process # None /\ bot_process \in live
                        THEN "readline" ELSE "finally"]
    /\ UNCHANGED <<bot_running, bot_process, window_bot_running, main_pc, run_count, live, read_from>>
    /\ OutsideRuns

\* output = self.bot_process.stdout.readline(): of whatever self.bot_process is now
ReaderReadLine(r) ==
    /\ reader_pc[r] = "readline"
    /\ IF bot_process = None
       THEN /\ reader_pc' = [reader_pc EXCEPT ![r] = "finally"]
            /\ UNCHANGED read_from
       ELSE /\ reader_pc' = [reader_pc EXCEPT ![r] = "loop"]
            /\ read_from' = read_from \cup {<<r, bot_process>>}
    /\ UNCHANGED <<bot_running, bot_process, window_bot_running, main_pc, run_count, live>>
    /\ OutsideRuns

\* finally: if self.bot_process: terminate(), self.bot_process = None;
\* self.bot_running = False; self.main_window.bot_running = False
ReaderFinally(r) ==
    /\ reader_pc[r] = "finally"
    /\ live' = IF bot_process # None THEN live \ {bot_process} ELSE live
    /\ bot_process' = None
    /\ bot_running' = FALSE
    /\ window_bot_running' = FALSE
    /\ reader_pc' = [reader_pc EXCEPT ![r] = "finished"]
    /\ UNCHANGED <<main_pc, run_count, read_from>>
    /\ OutsideRuns

\* a subprocess ends by itself
ProcessExits ==
    /\ \E p \in live : live' = live \ {p}
    /\ UNCHANGED <<bot_running, bot_process, window_bot_running, main_pc, run_count, reader_pc, read_from>>
    /\ OutsideRuns

ReaderStep == \E r \in Runs : ReaderPopen(r) \/ ReaderLoopCondition(r) \/ ReaderReadLine(r) \/ ReaderFinally(r)

RunsNext ==
    \/ StartBotRun
    \/ StopBotRunTerminate
    \/ StopBotRunFinish
    \/ ReaderStep
    \/ ProcessExits

\* ------------------------------------------------------------------------
\* core/Ura/event_handling.py: analyze_event_options
\* ------------------------------------------------------------------------
\* str.lower() of one character
lower_char(c) == CASE c = "S" -> "s" [] c = "P" -> "p" [] c = "X" -> "x" [] OTHER -> c

\* str.lower()
lower(text) == [i \in DOMAIN text |-> lower_char(text[i])]

\* word in text (substring test; the empty word is in every text)
str_in(word, text) ==
    \E i \in 0..(Len(text) - Len(word)) : SubSeq(text, i + 1, i + Len(word)) = word

\* texts are sequences of characters
Rewards ==
    { << >>, <<"s">>, <<"P">>, <<"p", "s">>, <<"s", "x">>, <<"X">>, <<"P", "x">> }

GoodWords == { <<"s">>, <<"P">>, <<"p", "s">> }

BadChoiceLists == { << >>, << <<"x">> >>, << <<"X">>, <<"s">> >> }

EventOptionInputs == UNION { [1..n -> Rewards] : n \in 0..MaxEventOptions }

GoodChoiceLists == UNION { [1..n -> GoodWords] : n \in 0..MaxGoodChoices }

\* the choices of the list found in the reward, in list order
choice_matches(choices, option_reward) ==
    SelectSeq(choices, LAMBDA choice : str_in(lower(choice), lower(option_reward)))

option_analysis(options, priorities) ==
    [option_name \in DOMAIN options |->
        LET good_matches == choice_matches(priorities.Good_choices, options[option_name])
            bad_matches == choice_matches(priorities.Bad_choices, options[option_name])
        IN  [reward |-> options[option_name],
             good_matches |-> good_matches,
             bad_matches |-> bad_matches,
             has_good |-> Len(good_matches) > 0,
             has_bad |-> Len(bad_matches) > 0]]

\* all_options_bad = True, then False as soon as an option has a good match
all_options_bad(analysis) ==
    \A option_name \in DOMAIN analysis : ~(Len(analysis[option_name].good_matches) > 0)

\* if priority < best_priority or best_priority == -1
is_better_OrEqual(priority, best_priority) == priority <= best_priority \/ best_priority = -1

is_better(priority, best_priority) == priority < best_priority \/ best_priority = -1

\* the two nested loops over the options and their good matches; best is
\* [best_priority, best_options]; clean_only is the test of the normal case
RECURSIVE best_by_priority(_, _, _, _, _, _)
best_by_priority(analysis, good_choices, clean_only, option_name, k, best) ==
    IF option_name > Len(analysis) THEN best
    ELSE IF (clean_only /\ ~(analysis[option_name].has_good /\ ~analysis[option_name].has_bad))
            \/ k > Len(analysis[option_name].good_matches)
    THEN best_by_priority(analysis, good_choices, clean_only, option_name + 1, 1, best)
    ELSE LET priority == IndexOf(good_choices, analysis[option_name].good_matches[k])
             next == IF is_better(priority, best.best_priority)
                     THEN [best_priority |-> priority, best_options |-> <<option_name>>]
                     ELSE IF priority = best.best_priority
                     THEN [best EXCEPT !.best_options = Append(@, option_name)]
                     ELSE best
         IN  best_by_priority(analysis, good_choices, clean_only, option_name, k + 1, next)

\* fallback: the option with the fewest bad matches, the first one on ties
RECURSIVE fewest_bad(_, _, _)
fewest_bad(analysis, option_name, best) ==
    IF option_name > Len(analysis) THEN best.best_option
    ELSE LET bad_count == Len(analysis[option_name].bad_matches)
         IN  fewest_bad(analysis, option_name + 1,
                        IF bad_count < best.min_bad_choices
                        THEN [min_bad_choices |-> bad_count, best_option |-> option_name]
                        ELSE best)

analyze_event_options(options, priorities) ==
    LET analysis == option_analysis(options, priorities)
        all_bad == all_options_bad(analysis)
        start == [best_priority |-> -1, best_options |-> << >>]
        best_options == best_by_priority(analysis, priorities.Good_choices, ~all_bad, 1, 1, start).best_options
        recommended_option ==
            IF best_options # << >> THEN best_options[1]
            ELSE IF all_bad THEN Absent
            ELSE fewest_bad(analysis, 1, [min_bad_choices |-> 999, best_option |-> Absent])
    IN  [recommended_option |-> recommended_option,
         option_analysis |-> analysis,
         all_options_bad |-> all_bad]

OutsideEvent ==
    UNCHANGED <<chooseVars, failureVars, loopVars, scoreVars, matchVars, guiVars, decisionVars,
                restartVars, runVars, opponentVars>>

NoAnalysis == [recommended_option |-> Absent, option_analysis |-> << >>, all_options_bad |-> TRUE]

AnalysisIdle ==
    /\ event_options = << >>
    /\ event_priorities = [Good_choices |-> << >>, Bad_choices |-> << >>]
    /\ event_analysis = NoAnalysis
    /\ event_pc = "idle"

NoResult == EventResult(Absent, FALSE, 0)

ChoiceIdle ==
    /\ ec_found_events = "unknown"
    /\ ec_recommended_option = None
    /\ ec_expected_options = 0
    /\ ec_choices_found = 0
    /\ ec_result = NoResult
    /\ ec_tapped = None
    /\ ec_pc = "idle"

EventIdle == AnalysisIdle /\ ChoiceIdle

EventStart ==
    /\ event_options \in EventOptionInputs
    /\ event_priorities \in [Good_choices : GoodChoiceLists, Bad_choices : BadChoiceLists]
    /\ event_analysis = NoAnalysis
    /\ event_pc = "call"
    /\ ChoiceIdle

AnalyzeEventOptions ==
    /\ event_pc = "call"
    /\ event_analysis' = analyze_event_options(event_options, event_priorities)
    /\ event_pc' = "done"
    /\ UNCHANGED <<event_options, event_priorities, choiceVars>>
    /\ OutsideEvent

EventNext == AnalyzeEventOptions

\* ------------------------------------------------------------------------
\* core/Ura/event_handling.py: handle_event_choice from the database lookup
\* on, click_event_choice, and the event handler of career_lobby
\* ------------------------------------------------------------------------
\* option names of the event databases (keys of event_data["options"])
OptionNames ==
    {"Top Option", "Middle Option", "Bottom Option", "Option 1", "Option 4", "Option 0", "Skip"}

\* word in recommended_option.lower()
name_has(option_name, word) ==
    CASE word = "top" -> option_name = "Top Option"
      [] word = "middle" -> option_name = "Middle Option"
      [] word = "bottom" -> option_name = "Bottom Option"
      [] OTHER -> FALSE

\* re.search(r'option\s*(\d+)', recommended_option.lower()): int(group(1)), Absent without a match
option_match(option_name) ==
    CASE option_name = "Option 1" -> 1
      [] option_name = "Option 4" -> 4
      [] option_name = "Option 0" -> 0
      [] OTHER -> Absent

\* if choice_number > choices_found: choice_number = 1
verified_choice(choice_number, choices_found) ==
    IF choice_number > choices_found THEN 1 ELSE choice_number

\* the choice number for the recommended option
choice_number_of(recommended_option, expected_options, choices_found) ==
    LET mapped ==
            IF recommended_option = None THEN 1
            ELSE IF expected_options = 2
            THEN (IF name_has(recommended_option, "top") THEN 1
                  ELSE IF name_has(recommended_option, "bottom") THEN 2
                  ELSE 1)
            ELSE IF expected_options = 3
            THEN (IF name_has(recommended_option, "top") THEN 1
                  ELSE IF name_has(recommended_option, "middle") THEN 2
                  ELSE IF name_has(recommended_option, "bottom") THEN 3
                  ELSE 1)
            ELSE IF expected_options >= 4
            THEN (IF option_match(recommended_option) # Absent
                  THEN option_match(recommended_option)
                  ELSE 1)
            ELSE 1
    IN  verified_choice(mapped, choices_found)

\* click_event_choice with pre-found locations: taps the choice when it exists
click_event_choice(choice_number, unique_locations) ==
    1 <= choice_number /\ choice_number <= unique_locations

ChoiceStart ==
    /\ ec_found_events \in {"unknown", "no_options", "known"}
    /\ ec_recommended_option \in OptionNames \cup {None}
    /\ ec_expected_options \in 1..MaxExpectedOptions
    /\ ec_choices_found \in 0..MaxChoices
    /\ ec_result = NoResult
    /\ ec_tapped = None
    /\ ec_pc = "lookup"

OutsideChoice ==
    /\ UNCHANGED <<ec_found_events, ec_recommended_option, ec_expected_options, ec_choices_found>>
    /\ UNCHANGED analysisVars
    /\ OutsideEvent

\* if found_events: ... if options: ... else: return 1, False, choice_locations
EventLookup ==
    /\ ec_pc = "lookup"
    /\ IF ec_found_events = "known"
       THEN ec_pc' = "choose" /\ UNCHANGED ec_result
       ELSE ec_pc' = "returned" /\ ec_result' = EventResult(1, FALSE, ec_choices_found)
    /\ UNCHANGED ec_tapped
    /\ OutsideChoice

\* return choice_number, True, choice_locations
EventChoiceNumber ==
    /\ ec_pc = "choose"
    /\ ec_result' = EventResult(choice_number_of(ec_recommended_option, ec_expected_options,
                                                   ec_choices_found),
                                TRUE, ec_choices_found)
    /\ ec_pc' = "returned"
    /\ UNCHANGED ec_tapped
    /\ OutsideChoice

\* career_lobby: click the choice, or fall back to the first icon matched
EventClick ==
    /\ ec_pc = "returned"
    /\ ec_tapped' =
          IF ec_result.success
          THEN (IF click_event_choice(ec_result.choice_number, ec_result.locations)
                THEN "choice" ELSE "event_matches[0]")
          ELSE (IF ec_result.locations = 0 THEN None ELSE "event_matches[0]")
    /\ ec_pc' = "clicked"
    /\ UNCHANGED ec_result
    /\ OutsideChoice

ChoiceNext == EventLookup \/ EventChoiceNumber \/ EventClick

\* ------------------------------------------------------------------------
\* core/Unity/unity_race_handling.py: _pick_best_opponent
\* ------------------------------------------------------------------------
\* Rank order (higher first)
RANK_ORDER == <<"S", "A", "B", "C", "D", "E", "G">>

\* RANK_INDEX = {r: i for i, r in enumerate(RANK_ORDER)}
RANK_INDEX == [r \in {RANK_ORDER[i] : i \in DOMAIN RANK_ORDER} |-> IndexOf(RANK_ORDER, r)]

\* keys of TEAM_TEMPLATES with a template path
TEAM_TEMPLATES == {"S", "A", "B", "C", "D", "E"}

\* keys of OPPONENT_TEMPLATES
OPPONENT_TEMPLATES == {"A", "B", "C", "D", "E", "F", "G"}

\* bounding boxes, in the order tuples compare
BBoxes == {1, 2}

OpponentInputs == UNION { [1..n -> OPPONENT_TEMPLATES \X BBoxes] : n \in 1..MaxOpponents }

NoOpponent == << >>

\* tuples (index, rank, bbox) compare by index, then by bbox (the rank follows the index)
candidate_before(a, b) == a[1] < b[1] \/ (a[1] = b[1] /\ a[3] <= b[3])

pick_best_opponent(rank_of_team, opponents) ==
    IF rank_of_team \notin DOMAIN RANK_INDEX THEN NoOpponent
    ELSE LET team_idx == RANK_INDEX[rank_of_team]
             kept == SelectSeq(opponents, LAMBDA o : o[1] \in DOMAIN RANK_INDEX
                                                    /\ RANK_INDEX[o[1]] >= team_idx)
             candidates == [i \in DOMAIN kept |-> <<RANK_INDEX[kept[i][1]], kept[i][1], kept[i][2]>>]
         IN  IF candidates = << >> THEN NoOpponent
             ELSE LET first == CHOOSE i \in DOMAIN candidates :
                                  \A j \in DOMAIN candidates :
                                      candidate_before(candidates[i], candidates[j])
                  IN  <<candidates[first][2], candidates[first][3]>>

OutsideOpponent ==
    UNCHANGED <<chooseVars, failureVars, loopVars, scoreVars, matchVars, guiVars, decisionVars,
                restartVars, runVars, eventVars>>

OpponentIdle ==
    /\ team_rank = None
    /\ opponent_ranks = << >>
    /\ chosen = NoOpponent
    /\ opponent_pc = "idle"

\* unity_race_workflow: if team_rank and opponent_ranks
OpponentStart ==
    /\ team_rank \in TEAM_TEMPLATES
    /\ opponent_ranks \in OpponentInputs
    /\ chosen = NoOpponent
    /\ opponent_pc = "call"

PickBestOpponent ==
    /\ opponent_pc = "call"
    /\ chosen' = pick_best_opponent(team_rank, opponent_ranks)
    /\ opponent_pc' = "done"
    /\ UNCHANGED <<team_rank, opponent_ranks>>
    /\ OutsideOpponent

OpponentNext == PickBestOpponent

\* ------------------------------------------------------------------------
\* Specifications
\* ------------------------------------------------------------------------
ChooseIdle ==
    /\ training_results = EmptyDict
    /\ config = [maximum_failure |-> Absent,
                 min_score |-> [kind |-> "absent", num |-> 0, dict |-> EmptyDict, min_wit_score |-> Absent],
                 priority_stat |-> AbsentList]
    /\ current_stats = EmptyDict
    /\ STAT_CAPS = EmptyDict
    /\ best_training = None
    /\ cpc = "idle"

ChooseInit == ChooseStart /\ FailureIdle /\ LoopIdle /\ ScoreIdle /\ MatchIdle /\ GuiIdle /\ DecisionIdle /\ RestartIdle /\ RunIdle /\ EventIdle /\ OpponentIdle

FailureInit == FailureStart /\ ChooseIdle /\ LoopIdle /\ ScoreIdle /\ MatchIdle /\ GuiIdle /\ DecisionIdle /\ RestartIdle /\ RunIdle /\ EventIdle /\ OpponentIdle

\* career_lobby starts; debug_mode is whatever the configuration says
LoopInit ==
    /\ LoopStart
    /\ ChooseIdle
    /\ ScoreIdle
    /\ MatchIdle
    /\ GuiIdle
    /\ DecisionIdle
    /\ RestartIdle
    /\ RunIdle
    /\ EventIdle
    /\ OpponentIdle
    /\ DEBUG_MODE \in BOOLEAN
    /\ fpc = "idle"
    /\ attempt = 0
    /\ ocr_text = << >>
    /\ ocr_conf = 0
    /\ ocr_passes = 0
    /\ failure_result = <<NoMatch, 0>>
    /\ debug_saved = FALSE

FailureNext == WhiteAttempt \/ YellowAttempt \/ AllAttemptsFailed

SpecChoose == ChooseInit /\ [][ChooseNext]_vars

SpecFailure == FailureInit /\ [][FailureNext]_vars

SpecLoop == LoopInit /\ [][LoopNext]_vars

ScoreInit == ScoreStart /\ ChooseIdle /\ FailureIdle /\ LoopIdle /\ MatchIdle /\ GuiIdle /\ DecisionIdle /\ RestartIdle /\ RunIdle /\ EventIdle /\ OpponentIdle

MatchInit == MatchStart /\ ChooseIdle /\ FailureIdle /\ LoopIdle /\ ScoreIdle /\ GuiIdle /\ DecisionIdle /\ RestartIdle /\ RunIdle /\ EventIdle /\ OpponentIdle

GuiInit == GuiStart /\ ChooseIdle /\ FailureIdle /\ LoopIdle /\ ScoreIdle /\ MatchIdle /\ DecisionIdle /\ RestartIdle /\ RunIdle /\ EventIdle /\ OpponentIdle

SpecGui == GuiInit /\ [][GuiNext]_vars

DecisionInit == DecisionStart /\ FailureIdle /\ LoopIdle /\ ScoreIdle /\ MatchIdle /\ GuiIdle /\ RestartIdle /\ RunIdle /\ EventIdle /\ OpponentIdle

SpecDecision == DecisionInit /\ [][DecisionNext]_vars

RestartInit ==
    RestartStart /\ ChooseIdle /\ FailureIdle /\ LoopIdle /\ ScoreIdle /\ MatchIdle /\ GuiIdle /\ DecisionIdle
    /\ RunIdle
    /\ EventIdle
    /\ OpponentIdle

SpecRestart == RestartInit /\ [][RestartNext]_vars

RunsInit ==
    /\ GuiStart /\ RunIdle
    /\ ChooseIdle /\ FailureIdle /\ LoopIdle /\ ScoreIdle /\ MatchIdle /\ DecisionIdle /\ RestartIdle
    /\ EventIdle /\ OpponentIdle

SpecRuns == RunsInit /\ [][RunsNext]_vars

EventInit ==
    /\ EventStart
    /\ ChooseIdle /\ FailureIdle /\ LoopIdle /\ ScoreIdle /\ MatchIdle /\ GuiIdle /\ DecisionIdle
    /\ RestartIdle /\ RunIdle /\ OpponentIdle

SpecEvent == EventInit /\ [][EventNext]_vars

ChoiceInit ==
    /\ ChoiceStart /\ AnalysisIdle
    /\ ChooseIdle /\ FailureIdle /\ LoopIdle /\ ScoreIdle /\ MatchIdle /\ GuiIdle /\ DecisionIdle
    /\ RestartIdle /\ RunIdle /\ OpponentIdle

SpecEventChoice == ChoiceInit /\ [][ChoiceNext]_vars

OpponentInit ==
    /\ OpponentStart
    /\ ChooseIdle /\ FailureIdle /\ LoopIdle /\ ScoreIdle /\ MatchIdle /\ GuiIdle /\ DecisionIdle
    /\ RestartIdle /\ RunIdle /\ EventIdle

SpecOpponent == OpponentInit /\ [][OpponentNext]_vars

SpecMatch == MatchInit /\ [][MatchNext]_vars

SpecScore == ScoreInit /\ [][ScoreNext]_vars

Returned == cpc = "returned" /\ best_training # None

\* ---- the claims' own reading of the configuration -------------------------
ConfiguredCeiling == IF config.maximum_failure = Absent THEN 15 ELSE config.maximum_failure

ConfiguredCap(k) == IF k \in DOMAIN STAT_CAPS THEN STAT_CAPS[k] ELSE 1200

CurrentValue(k) == IF k \in DOMAIN current_stats THEN current_stats[k] ELSE 0

ConfiguredMinimum(k) ==
    CASE config.min_score.kind = "num" ->
            IF k = "wit" /\ config.min_score.min_wit_score # Absent
            THEN config.min_score.min_wit_score
            ELSE config.min_score.num
      [] config.min_score.kind = "dict" /\ k \in DOMAIN config.min_score.dict ->
            config.min_score.dict[k]
      [] OTHER -> 100

ConfiguredPriority ==
    IF config.priority_stat.present THEN config.priority_stat.value
    ELSE <<"spd", "sta", "wit", "pwr", "guts">>

PriorityPos(k) == CHOOSE i \in 1..Len(ConfiguredPriority) : ConfiguredPriority[i] = k

Score(k) == training_results[k].score

\* options that pass all three filters, the cap filter applied to every input
Survivors ==
    { k \in DOMAIN training_results :
        /\ training_results[k].failure <= ConfiguredCeiling
        /\ CurrentValue(k) < ConfiguredCap(k)
        /\ Score(k) >= ConfiguredMinimum(k) }

\* options that pass the filters, the cap filter applied only when current
\* stats were supplied
SurvivorsWithStats ==
    { k \in DOMAIN training_results :
        /\ training_results[k].failure <= ConfiguredCeiling
        /\ (DOMAIN current_stats = {} \/ CurrentValue(k) < ConfiguredCap(k))
        /\ Score(k) >= ConfiguredMinimum(k) }

\* C1: a returned stat's recorded failure chance is at most the configured
\* ceiling (maximum_failure, 15 when not configured).
C1_FailureCeiling ==
    Returned => training_results[best_training].failure <= ConfiguredCeiling

C1_Witness ==
    /\ Returned
    /\ \E k \in DOMAIN training_results : training_results[k].failure > ConfiguredCeiling

\* C2 as stated: a returned stat's current value is strictly below its cap.
C2_Original_BelowCap ==
    Returned => CurrentValue(best_training) < ConfiguredCap(best_training)

\* C2 amended: when current stats were supplied (non-empty), a returned
\* stat's current value is strictly below its configured cap.
C2_BelowCapWhenStatsKnown ==
    (Returned /\ DOMAIN current_stats # {})
        => CurrentValue(best_training) < ConfiguredCap(best_training)

C2_Witness ==
    /\ Returned
    /\ DOMAIN current_stats # {}
    /\ \E k \in DOMAIN training_results :
          /\ CurrentValue(k) >= ConfiguredCap(k)
          /\ training_results[k].failure <= ConfiguredCeiling
          /\ Score(k) > Score(best_training)

IsTopOf(S) ==
    IF S = {} THEN best_training = None
    ELSE /\ best_training \in S
         /\ \A j \in S : Score(j) <= Score(best_training)

\* C3 as stated: the result is a highest-scoring survivor of the three
\* filters, and None exactly when nothing survives them.
C3_Original_TopSurvivor == (cpc = "returned") => IsTopOf(Survivors)

\* C3 amended: the same, with the stat-cap filter applied only when current
\* stats were supplied (with empty current stats no option is dropped by it).
C3_TopSurvivorWithStats == (cpc = "returned") => IsTopOf(SurvivorsWithStats)

C3_Witness ==
    /\ Returned
    /\ \E j \in SurvivorsWithStats : Score(j) < Score(best_training)

\* C4: among surviving options tied at the highest score, the returned one is
\* the one placed earliest in the configured priority list.
C4_PriorityTieBreak ==
    Returned =>
        \A k \in SurvivorsWithStats \ {best_training} :
            (Score(k) = Score(best_training) /\ InList(ConfiguredPriority, k))
                => /\ InList(ConfiguredPriority, best_training)
                   /\ PriorityPos(best_training) < PriorityPos(k)

C4_Witness ==
    /\ Returned
    /\ \E k \in SurvivorsWithStats \ {best_training} :
          /\ Score(k) = Score(best_training)
          /\ InList(ConfiguredPriority, k)
          /\ InsertionPos(k) < InsertionPos(best_training)

\* C5: a returned stat's score is not below the minimum configured for it.
C5_MinimumScore ==
    Returned => Score(best_training) >= ConfiguredMinimum(best_training)

C5_Witness ==
    /\ Returned
    /\ \E k \in DOMAIN training_results :
          /\ Score(k) < ConfiguredMinimum(k)
          /\ training_results[k].failure <= ConfiguredCeiling
          /\ ConfiguredMinimum(k) # 100

\* ---- career_lobby ---------------------------------------------------------
\* the priority order of the states, written down independently of the steps
FixedPriorityOrder ==
    LET head == <<"complete_career", "claw", "ok", "event">>
        taps == IF mode = "unity"
                THEN <<"unity_cup", "inspiration", "cancel", "close", "next">>
                ELSE <<"inspiration", "cancel", "next">>
        lobby == <<"lobby", "infirmary", "race_priority", "ura_finale", "race_day",
                   "custom_race", "mood", "energy", "training">>
    IN  head \o taps \o lobby

IsPrefix(s, t) == Len(s) <= Len(t) /\ \A i \in 1..Len(s) : s[i] = t[i]

LastChecked == IF checked = << >> THEN None ELSE checked[Len(checked)]

Terminated == pc = "done"

\* exception e is being raised: it unwinds the calls or is at an except block
Propagating(e) ==
    /\ exc = e
    /\ pc \in {"raise", "HE_except", "event_except", "HR_except", "FR_except"}

\* C6 as stated: the states are checked in the fixed order, the first match
\* is the last check of its iteration, and nothing is done without a match.
C6_Original_FirstMatchEndsIteration ==
    /\ IsPrefix(checked, FixedPriorityOrder)
    /\ first_match # None => LastChecked = first_match
    /\ first_match = None => ~acted

\* C6: in every iteration the states are checked in the fixed priority order
\* and nothing is sent to the device before a state matches; once the handler
\* of a matching state has completed, the loop restarts and no lower-priority
\* state is checked in that iteration; a match whose handler does not complete
\* lets the iteration go on with the lower-priority checks.
C6_FixedOrderUntilHandled ==
    /\ IsPrefix(checked, FixedPriorityOrder)
    /\ handled # None =>
          /\ LastChecked = handled
          /\ first_match # None
          /\ pc = "top" \/ exc = "KeyboardInterrupt"
    /\ first_match = None => (~acted /\ handled = None)

C6_Witness ==
    /\ pc = "top"
    /\ handled = "next"
    /\ acted
    /\ first_match = "next"

C6_WitnessNoMatch ==
    /\ pc = "top"
    /\ LastChecked = "lobby"
    /\ first_match = None

C6_WitnessFallThrough ==
    /\ first_match = "race_priority"
    /\ LastChecked = "training"

\* C7: once a race failure is detected with race retry disabled, SystemExit is
\* on its way out of race handling and of the decision loop, or has ended the
\* loop, and no input is sent to the device after the detection.
C7_RetryDisabledStops ==
    race_failure_detected =>
        /\ ~RETRY_RACE
        /\ ~input_after_stop
        /\ \/ Propagating("SystemExit")
           \/ Terminated /\ exit_reason = "SystemExit"

C7_Witness ==
    /\ Terminated
    /\ exit_reason = "SystemExit"
    /\ race_failure_detected
    /\ first_match = "race_day"

\* C8: once "Event detection failed" is raised, it is on its way through
\* handle_event_choice and the event handler of the loop, or has ended the
\* loop; no event choice is clicked and no input is sent after it.
C8_EventFailureHalts ==
    event_failure_raised =>
        /\ stop_on_event_failure
        /\ ~input_after_stop
        /\ handled # "event"
        /\ \/ Propagating(EventDetectionFailed)
           \/ Terminated /\ exit_reason = EventDetectionFailed

C8_Witness ==
    /\ Terminated
    /\ exit_reason = EventDetectionFailed
    /\ event_failure_raised

C9_WitnessRuntimeError ==
    /\ Terminated
    /\ exit_reason = "RuntimeError"
    /\ mode = "unity"
    /\ ~DEBUG_MODE

\* C11: every value a decision of an iteration is taken from (year, mood,
\* energy, criteria, current stats) was read from the screen during that same
\* iteration, in both modes; before the read the iteration holds none of them.
C11_DecisionsUseFreshValues ==
    /\ DecisionInputs(pc) \subseteq fresh
    /\ pc \in {"complete_career", "claw", "ok", "event", "lobby", "infirmary"} => fresh = {}

C11_Witness ==
    /\ pc = "decide_training"
    /\ mode = "unity"
    /\ "current_stats" \in fresh
    /\ day > 1

\* ---- check_failure ---------------------------------------------------------
\* the accepted OCR text holds a number of at most three digits within 0..100
\* (next to a percent sign or alone) and was read with the confidence its
\* pass requires
TextHoldsRate(r) ==
    \E i \in 1..Len(ocr_text), n \in 1..3 :
        /\ i + n - 1 <= Len(ocr_text)
        /\ \A j \in i..(i + n - 1) : ocr_text[j] \in {"0", "1", "5"}
        /\ IntOf(ocr_text, i, n) = r

ValueWasRead ==
    /\ failure_result[1] >= 0
    /\ failure_result[1] <= 100
    /\ TextHoldsRate(failure_result[1])
    /\ failure_result[2] = ocr_conf
    /\ ocr_conf >= (IF ocr_passes <= 3 THEN 80 ELSE 90)

\* the call went through all six OCR passes without accepting a value
AllOcrFailed == fpc \in {"returned", "raised"} /\ ocr_passes = 6 /\ ~ValueWasRead

\* C10: when every OCR attempt failed, check_failure returns a failure chance
\* of 100 with debug mode off and raises, the diagnostic image saved, with
\* debug mode on; a value below 100 is returned only when an OCR pass read it.
C10_UnreadableIsHundred ==
    /\ AllOcrFailed =>
          IF DEBUG_MODE
          THEN fpc = "raised" /\ debug_saved
          ELSE fpc = "returned" /\ failure_result[1] = 100
    /\ (fpc = "returned" /\ failure_result[1] < 100) => ValueWasRead
    /\ (fpc = "raised") => (DEBUG_MODE /\ debug_saved /\ ocr_passes = 6)

C10_Witness == AllOcrFailed /\ ~DEBUG_MODE

C10_WitnessDebug == AllOcrFailed /\ DEBUG_MODE

\* ---- device bridge ----
BridgeUnavailable == bridge # "up"

\* positions of an iteration that finds nothing and retries
DegradedPositions == {"top", "complete_career", "claw", "ok", "event", "event_except", "unity_cup",
                      "inspiration", "cancel", "close", "next", "lobby", "raise", "done"}

C17_WitnessWholeIteration ==
    /\ bridge = "offline"
    /\ screenshot = None
    /\ pc = "top"
    /\ checked # << >>
    /\ LastChecked = "lobby"
    /\ first_match = None

\* ------------------------------------------------------------------------
\* calculate_training_score
\* ------------------------------------------------------------------------
ScoreReturned == spc = "returned" /\ ~score.raised

\* the weight in force for a rule: the configured one, else the hard-coded default
WeightInForce(key) ==
    IF score_file.kind = "rules" /\ score_file[key] # Absent
    THEN score_file[key]
    ELSE rule_default(key)

RainbowCards == {c \in Cards : c[1] = training_type /\ c[2] >= 4}

LowBondCards == {c \in Cards \ RainbowCards : c[2] < 4}

HighBondCards == (Cards \ RainbowCards) \ LowBondCards

OneBondFiveSpdCard == [c \in Cards |-> IF c = <<"spd", 5>> THEN 1 ELSE 0]

\* C12: the Ura score is the sum over the detected cards of rainbow points for a
\* card of the trained type with bond at least 4, else low-bond points for bond
\* below 4, else high-bond points, plus the hint points once when a hint was
\* detected, rounded to 2 decimals; one bond-5 spd card with a hint on spd
\* training and default weights scores 1.3
C12_ScoreFormula ==
    /\ (ScoreReturned /\ score_mode = "ura") =>
          score.value = round2(CardCount(support_detail, RainbowCards) * WeightInForce("rainbow_support")
                               + CardCount(support_detail, LowBondCards) * WeightInForce("not_rainbow_support_low")
                               + CardCount(support_detail, HighBondCards) * WeightInForce("not_rainbow_support_high")
                               + (IF hint_found THEN WeightInForce("hint") ELSE 0))
    /\ (/\ spc = "returned"
        /\ score_mode = "ura"
        /\ support_detail = OneBondFiveSpdCard
        /\ hint_found
        /\ training_type = "spd"
        /\ score_file.kind \in {"missing", "invalid_json", "no_rules"}) => score = [raised |-> FALSE, value |-> 130]

C12_Witness ==
    /\ ScoreReturned
    /\ score_mode = "ura"
    /\ support_detail = OneBondFiveSpdCard
    /\ hint_found
    /\ training_type = "spd"
    /\ score_file.kind = "missing"
    /\ score.value = 130

C12_WitnessMixed ==
    /\ ScoreReturned
    /\ score_mode = "ura"
    /\ support_detail[<<training_type, 4>>] = 1
    /\ \E c \in LowBondCards : support_detail[c] = 1
    /\ score_file.kind = "rules"
    /\ score_file.not_rainbow_support_low = 707
    /\ score_file.rainbow_support = 500
    /\ score.value = 121

\* support_detail with one card of the trained type moved from bond l to bond l + 1
BondRaised(l) ==
    [support_detail EXCEPT ![<<training_type, l>>] = @ - 1,
                           ![<<training_type, l + 1>>] = @ + 1]

ScoreWithBondRaised(l) ==
    calculate_training_score(BondRaised(l), hint_found, spirit, training_type, score_file)

RaisableBonds == {l \in 1..4 : support_detail[<<training_type, l>>] > 0}

ConfiguredOr(key, default) ==
    IF score_file.kind = "rules" /\ score_file[key] # Absent THEN score_file[key] ELSE default

RainbowInForce == ConfiguredOr("rainbow_support", DefaultRainbowPoints)

LowBondInForce == ConfiguredOr("not_rainbow_support_low", DefaultLowBondPoints)

\* C13 as stated: with every other input fixed, the score does not decrease when
\* the bond level of a card of the trained type increases, whatever the weights
C13_Original_MonotoneInBond ==
    ScoreReturned =>
        \A l \in RaisableBonds :
            ScoreWithBondRaised(l).raised \/ ScoreWithBondRaised(l).value >= score.value

\* C13: with every other input fixed, the score does not decrease when the bond
\* level of a card of the trained type increases, provided the rainbow points in
\* force are at least the low-bond points in force
C13_MonotoneInBondWhenRainbowAtLeastLow ==
    (/\ ScoreReturned
     /\ RainbowInForce # NotANumber
     /\ LowBondInForce # NotANumber
     /\ RainbowInForce >= LowBondInForce) =>
        \A l \in RaisableBonds :
            ~ScoreWithBondRaised(l).raised /\ ScoreWithBondRaised(l).value >= score.value

C13_Witness ==
    /\ ScoreReturned
    /\ score_mode = "unity"
    /\ spirit.spirit_count = 1
    /\ 3 \in RaisableBonds
    /\ RainbowInForce = 1000
    /\ LowBondInForce = 707
    /\ ScoreWithBondRaised(3).value > score.value

C13_WitnessDecrease ==
    /\ ScoreReturned
    /\ score_mode = "ura"
    /\ 3 \in RaisableBonds
    /\ RainbowInForce = 500
    /\ LowBondInForce = 700
    /\ ScoreWithBondRaised(3).value < score.value

\* C14: the scorer is a pure function: a call changes no program, file or device
\* state, and any two calls during a run with the same support_detail,
\* hint_found and training_type return the same score
C14_PureAndDeterministic ==
    /\ [][CallScore => UNCHANGED <<score_file, support_detail, hint_found, training_type,
                                   chooseVars, failureVars, loopVars>>]_vars
    /\ [](calls = 2 /\ ScoreReturned => score.value = first_score.value)

\* the score the hard-coded default weights give for the arguments of the call
DefaultWeightsScore ==
    round2(CardCount(support_detail, RainbowCards) * DefaultRainbowPoints
           + CardCount(support_detail, LowBondCards) * DefaultLowBondPoints
           + CardCount(support_detail, HighBondCards) * DefaultHighBondPoints
           + (IF hint_found THEN DefaultHintPoints ELSE 0)
           + spirit_points(spirit))

ConfigurationUnusable ==
    score_file.kind \in {"missing", "invalid_json", "unreadable", "not_object"}

\* C15: the scorer has no failure mode: it never raises, and when the scoring
\* configuration is missing or cannot be used it returns the score of the
\* hard-coded defaults (rainbow 1.0, low bond 0.7, high bond 0.0, hint 0.3)
C15_NeverRaises ==
    spc = "returned" =>
        /\ ~score.raised
        /\ ConfigurationUnusable => score.value = DefaultWeightsScore

\* what the except clause does cover: a missing file and invalid JSON
C15_DefaultsWhenMissingOrInvalid ==
    (spc = "returned" /\ score_file.kind \in {"missing", "invalid_json"}) =>
        ~score.raised /\ score.value = DefaultWeightsScore

C15_WitnessDefaults ==
    /\ ScoreReturned
    /\ score_file.kind = "invalid_json"
    /\ hint_found
    /\ CardCount(support_detail, RainbowCards) = 1
    /\ CardCount(support_detail, LowBondCards) = 1
    /\ score.value = 200

\* ------------------------------------------------------------------------
\* match_template
\* ------------------------------------------------------------------------
\* no column of the screen reaches the confidence
Unmatched == \A c \in 1..MaxPositions : result[c] < confidence

C16_WitnessUnmatched ==
    /\ mt_pc = "done"
    /\ template_file = "image"
    /\ mt_screenshot = "image"
    /\ region = NoRegion
    /\ Unmatched
    /\ feature = "absent"

C16_WitnessCaught ==
    /\ mt_pc = "done"
    /\ template_file = "image"
    /\ mt_screenshot = None
    /\ feature = "absent"

C16_WitnessMatched ==
    /\ mt_pc = "done"
    /\ Len(matches) = 2
    /\ feature = "present"

\* ------------------------------------------------------------------------
\* BotController
\* ------------------------------------------------------------------------
PassesFilter(line) == line[2] \in {"log", "status"}

\* the lines written by the subprocess that pass the display filter
Displayed == SelectSeq(emitted, PassesFilter)

Quiescent == bot_pc = "finished" /\ main_pc = "ready" /\ log_queue = << >>

\* C18: every stdout line that passes the display filter is put on the queue and
\* forwarded to the UI exactly once and in the order emitted, including the
\* lines emitted just before the subprocess exits or the bot is stopped
C18_EveryLineForwardedOnceInOrder ==
    /\ IsPrefix(gui_log \o log_queue, Displayed)
    /\ Quiescent => gui_log = Displayed

\* what the reader does guarantee: no duplication and no reordering
C18_NoDuplicationNoReordering ==
    IsPrefix(gui_log \o log_queue, Displayed)

C18_WitnessForwarded ==
    /\ Quiescent
    /\ Len(emitted) = 2
    /\ Len(gui_log) = 1
    /\ gui_log = Displayed

C18_WitnessLost ==
    /\ Quiescent
    /\ window_bot_running = FALSE
    /\ pipe # << >>
    /\ PassesFilter(pipe[1])
    /\ gui_log # Displayed

\* a field is shared when one thread writes it and another reads or writes it
Shared(f) ==
    \E t1 \in {"main", "bot", "status", "monitor"}, t2 \in {"main", "bot", "status", "monitor"} :
        /\ t1 # t2
        /\ <<t1, f, "w">> \in accesses
        /\ <<t2, f, "r">> \in accesses \/ <<t2, f, "w">> \in accesses

SharedFields == {f \in {x[2] : x \in accesses} : Shared(f)}

Unread == fallback_result[1]

Clicked == dpc = "done" /\ trained # None

RelaxedBranches == {"all_unsafe", "no_races", "race_not_found"}

C20_NeverTrainsAboveCeiling ==
    Clicked =>
        /\ training_results[trained].failure <= ConfiguredCeiling
        /\ (ConfiguredCeiling < 100 => training_results[trained].failure # Unread)

\* a relaxed selection clicked a training although another option was above the ceiling
C20_Witness ==
    /\ Clicked
    /\ decision_path \in RelaxedBranches
    /\ best_training = None
    /\ \E k \in DOMAIN training_results : training_results[k].failure > ConfiguredCeiling

\* the only option could not be read: the relaxed selection rests
C20_WitnessUnreadRests ==
    /\ dpc = "done"
    /\ decision_path = "all_unsafe"
    /\ lobby_action = "rest"
    /\ fallback_training = None
    /\ wit_score(training_results) >= 100
    /\ ConfiguredCeiling < 100
    /\ \A k \in DOMAIN training_results : training_results[k].failure = Unread
    /\ trained = None


\* ------------------------------------------------------------------------
\* C21: every polling loop of race handling stops after its fixed attempt
\* count, even when the awaited button never appears and the clock icon is
\* seen on every check: no loop makes more checks than its maximum, every
\* check that stays in the loop counts (a handled retry included), and a
\* loop that has used its attempts is left at once (for the code after it, or
\* by an exception).
\* ------------------------------------------------------------------------
RetryPositions == {"HR", "HR_prep_ret", "HR_except", "RP1", "RP2"}

AttemptsWithinMaximum ==
    /\ prep_i <= MaxPrepAttempts
    /\ after_i <= MaxAfterAttempts
    /\ day_i <= MaxDayChecks

EveryCheckCounts ==
    /\ (pc \in {"RP1", "RP2"} /\ pc' = pc) => prep_i' = prep_i + 1
    /\ (pc \in {"AR1", "AR2"} /\ pc' = pc) => after_i' = after_i + 1
    /\ (pc \in {"AR1", "AR2"} /\ pc' = "HR") => after_i' = after_i
    /\ (pc = "AR1_retry_ret" /\ pc' = "AR1") => after_i' = after_i + 1
    /\ (pc = "AR2_retry_ret" /\ pc' = "AR2") => after_i' = after_i + 1
    /\ (pc = "RD_loop" /\ pc' \in {"RD_loop", "HR"}) => day_i' = day_i + 1
    /\ (pc = "RD_retry_ret" /\ pc' = "RD_loop") => day_i' = day_i
    /\ (pc \in RetryPositions /\ pc' \in RetryPositions \cup {"AR1_retry_ret", "AR2_retry_ret", "RD_retry_ret"})
            => after_i' = after_i /\ day_i' = day_i

ExhaustedLoopIsLeft ==
    /\ (pc \in {"RP1", "RP2"} /\ prep_i = MaxPrepAttempts) => pc' \notin {"RP1", "RP2", "HR"}
    /\ (pc = "AR1" /\ after_i = MaxAfterAttempts) => pc' \in {"AR2", "raise"}
    /\ (pc = "AR2" /\ after_i = MaxAfterAttempts) => pc' \notin {"AR1", "AR2", "HR"}
    /\ (pc = "RD_loop" /\ day_i = MaxDayChecks) => pc' \in {"AR1", "raise"}

C21_WitnessRaceDay == pc = "RD_retry_ret" /\ day_i = MaxDayChecks

\* ------------------------------------------------------------------------
\* C22: in after_race, once the retry after a clock icon has been handled,
\* the wait restarts from attempt 0.
\* ------------------------------------------------------------------------
C22_WaitRestartsAfterRetry ==
    [][(pc \in {"AR1_retry_ret", "AR2_retry_ret"} /\ pc' \in {"AR1", "AR2"}) => after_i' = 0]_vars

\* what the loop does instead: the retry uses up one of its attempts
C22_RetryUsesAnAttempt ==
    [][(pc \in {"AR1_retry_ret", "AR2_retry_ret"} /\ pc' \in {"AR1", "AR2"}) => after_i' = after_i + 1]_vars

C22_Witness ==
    /\ pc \in {"AR1", "AR2"}
    /\ after_i = MaxAfterAttempts
    /\ retval = TRUE
    /\ race_failure_detected = FALSE


\* ------------------------------------------------------------------------
\* C23: in each workflow mode, after a custom-race attempt has failed on a
\* day, the decision loop does not attempt a custom race again in later
\* iterations of that day: do_custom_race is called only when the day has
\* changed since the latest failed attempt or a successful custom race came
\* after it.
\* ------------------------------------------------------------------------
CustomRaceAttempted == pc = "custom_race" /\ pc' = "CR"

C23_NoSecondAttemptOnFailedDay ==
    [][CustomRaceAttempted => custom_race_failed_day # day]_vars

\* the same, of the Ura workflow
C23_NoSecondAttemptOnFailedDayUra ==
    [][(mode = "ura" /\ CustomRaceAttempted) => custom_race_failed_day # day]_vars

\* Ura: the check is skipped on the day of a failed attempt
C23_Witness ==
    /\ mode = "ura"
    /\ do_custom_race_enabled
    /\ custom_race_failed_day = day
    /\ last_failed_custom_race_day = day
    /\ checked # << >>
    /\ checked[Len(checked)] = "custom_race"
    /\ first_match = None
    /\ pc = NextCheck("custom_race")

\* Unity: do_custom_race is running again on the day of a failed attempt
C23_WitnessUnity ==
    /\ mode = "unity"
    /\ pc = "CR"
    /\ custom_race_failed_day = day


\* ------------------------------------------------------------------------
\* C24: run_restart_workflow, when restarting is enabled, goes on with
\* restart cycles until the restart criteria are met (the restart count has
\* reached the configured maximum, or a positive total-fans requirement has
\* been reached) and does not end before one of them holds.
\* ------------------------------------------------------------------------
WorkflowEnded == rw_pc = "done" /\ workflow_enabled

CountReached == current_restart_count >= max_restart_times

FansReached == total_fans_requirement > 0 /\ fans_counted >= total_fans_requirement

C24_WitnessFans ==
    /\ WorkflowEnded
    /\ current_restart_count = 1
    /\ ~CountReached
    /\ FansReached
    /\ cycle_failure = None

\* a cycle failed with neither criterion met
C24_WitnessCycleFailed ==
    /\ WorkflowEnded
    /\ workflow_result = "True"
    /\ cycle_failure = "start_career"
    /\ ~CountReached
    /\ ~FansReached


\* ------------------------------------------------------------------------
\* C25: when the Complete Career screen is detected and the career restart
\* workflow has completed (career_lobby_check has returned), career_lobby
\* returns and the bot stops; it does not go on polling the screen.
\* ------------------------------------------------------------------------
CareerLobbyCheckReturned == pc = "complete_career_ret"

C25_ReturnsAfterRestartWorkflow ==
    [][CareerLobbyCheckReturned => pc' \in {"done", "raise"}]_vars

\* what holds: career_lobby returns exactly when restarting is disabled
C25_ReturnsOnlyWhenRestartDisabled ==
    [][CareerLobbyCheckReturned =>
          IF restart_enabled THEN pc' \in {NextCheck("complete_career"), "raise"}
          ELSE pc' \in {"done", "raise"}]_vars

\* restart disabled: career_lobby has returned False
C25_Witness ==
    /\ pc = "done"
    /\ exit_reason = "return"
    /\ first_match = "complete_career"
    /\ ~restart_enabled

\* the workflow has completed and the loop is at its next check
C25_WitnessPollsOn ==
    /\ restart_enabled
    /\ first_match = "complete_career"
    /\ retval = TRUE
    /\ pc = NextCheck("complete_career")
    /\ stack = << >>


\* ------------------------------------------------------------------------
\* C26: after stop_bot is followed by start_bot, the previous run's reader
\* thread cannot affect the new run: its cleanup never terminates the new
\* subprocess and never sets bot_running to False while the new run is
\* active.
\* ------------------------------------------------------------------------
PreviousCleanup(r) ==
    /\ r < run_count
    /\ reader_pc[r] = "finally"
    /\ reader_pc'[r] = "finished"

C26_PreviousReaderCannotAffectNewRun ==
    [][\A r \in Runs :
          PreviousCleanup(r) =>
              /\ (Process(run_count) \in live => Process(run_count) \in live')
              /\ (bot_running => bot_running')]_vars

\* what holds: the cleanup of a reader thread that is the only reader thread
\* alive terminates no subprocess of another run
C26_LoneReaderCleanup ==
    [][\A r \in Runs :
          (/\ reader_pc[r] = "finally" /\ reader_pc'[r] = "finished"
           /\ \A q \in Runs \ {r} : reader_pc[q] \in {"idle", "finished"}) =>
              \A q \in Runs \ {r} : (Process(q) \in live => Process(q) \in live')]_vars

\* the second run is active and the first run's reader thread has finished
C26_Witness ==
    /\ run_count = 2
    /\ reader_pc[1] = "finished"
    /\ reader_pc[2] = "readline"
    /\ bot_running
    /\ Process(2) \in live
    /\ read_from = {<<1, Process(1)>>, <<2, Process(2)>>}

\* the first run's reader thread is about to clean up while the second run is active
C26_WitnessStaleReader ==
    /\ run_count = 2
    /\ reader_pc[1] = "finally"
    /\ bot_running
    /\ bot_process = Process(2)
    /\ Process(2) \in live


\* ------------------------------------------------------------------------
\* analyze_event_options: what the claims speak of, stated on the inputs
\* ------------------------------------------------------------------------
HasGoodMatch(i) ==
    \E k \in DOMAIN event_priorities.Good_choices :
        str_in(lower(event_priorities.Good_choices[k]), lower(event_options[i]))

HasBadMatch(i) ==
    \E k \in DOMAIN event_priorities.Bad_choices :
        str_in(lower(event_priorities.Bad_choices[k]), lower(event_options[i]))

\* position in Good_choices of the highest-priority good choice of option i
BestGood(i) ==
    CHOOSE k \in DOMAIN event_priorities.Good_choices :
        /\ str_in(lower(event_priorities.Good_choices[k]), lower(event_options[i]))
        /\ \A j \in 1..(k - 1) :
              ~str_in(lower(event_priorities.Good_choices[j]), lower(event_options[i]))

CleanOptions == { i \in DOMAIN event_options : HasGoodMatch(i) /\ ~HasBadMatch(i) }

Analysed == event_pc = "done"

\* ------------------------------------------------------------------------
\* C27: whenever at least one event option has a good-choice match and no
\* bad-choice match, analyze_event_options recommends such an option (never
\* one containing a bad-choice match), and among them the one holding the
\* highest-priority good choice, the first listed winning ties.
\* ------------------------------------------------------------------------
C27_RecommendsBestCleanOption ==
    (Analysed /\ CleanOptions # {}) =>
        LET r == event_analysis.recommended_option
        IN  /\ r \in CleanOptions
            /\ \A i \in CleanOptions : BestGood(r) <= BestGood(i)
            /\ \A i \in CleanOptions : i < r => BestGood(r) < BestGood(i)

\* a later clean option ties with the recommended one; an earlier option has a bad match
C27_Witness ==
    /\ Analysed
    /\ Len(event_options) = 2
    /\ CleanOptions = {1, 2}
    /\ BestGood(1) = BestGood(2)
    /\ Len(event_priorities.Good_choices) = 2
    /\ event_analysis.recommended_option = 1

\* the option with the better good choice also has a bad match and is passed over
C27_WitnessBadPassedOver ==
    /\ Analysed
    /\ Len(event_options) = 2
    /\ CleanOptions = {2}
    /\ HasGoodMatch(1) /\ HasBadMatch(1)
    /\ BestGood(1) < BestGood(2)
    /\ event_analysis.recommended_option = 2

\* ------------------------------------------------------------------------
\* C28: when all event options have bad choices, analyze_event_options
\* reports all_options_bad and recommends the option whose reward contains
\* the highest-priority good choice (earliest in the Good_choices list).
\* ------------------------------------------------------------------------
AllHaveBad == event_options # << >> /\ \A i \in DOMAIN event_options : HasBadMatch(i)

GoodOptions == { i \in DOMAIN event_options : HasGoodMatch(i) }

C28_AllBadPicksByGoodPriority ==
    (Analysed /\ AllHaveBad) =>
        /\ event_analysis.all_options_bad
        /\ GoodOptions # {} =>
              /\ event_analysis.recommended_option \in GoodOptions
              /\ \A i \in GoodOptions : BestGood(event_analysis.recommended_option) <= BestGood(i)

\* what holds: all_options_bad is reported exactly when no option has a good
\* match, and then nothing is recommended; options that all have bad matches
\* are otherwise ranked by their number of bad matches only
C28_AllOptionsBadMeansNoGoodMatch ==
    Analysed =>
        /\ event_analysis.all_options_bad <=> (GoodOptions = {})
        /\ event_analysis.all_options_bad => event_analysis.recommended_option = Absent
        /\ (AllHaveBad /\ GoodOptions # {}) =>
              \A i \in DOMAIN event_options :
                  Len(event_analysis.option_analysis[event_analysis.recommended_option].bad_matches)
                      <= Len(event_analysis.option_analysis[i].bad_matches)

\* every option has a bad match, none a good one: all_options_bad, nothing recommended
C28_Witness ==
    /\ Analysed
    /\ Len(event_options) = 2
    /\ AllHaveBad
    /\ event_analysis.all_options_bad
    /\ event_analysis.recommended_option = Absent

\* every option has a bad match, the second the better good choice: the first is recommended
C28_WitnessNotByPriority ==
    /\ Analysed
    /\ AllHaveBad
    /\ GoodOptions = {1, 2}
    /\ BestGood(2) < BestGood(1)
    /\ ~event_analysis.all_options_bad
    /\ event_analysis.recommended_option = 1


\* ------------------------------------------------------------------------
\* C29: whenever handle_event_choice reports success, the choice number it
\* returns is valid: it lies between 1 and the number of event choices found
\* on screen, so the following click targets an existing choice.
\* ------------------------------------------------------------------------
EventChoiceReturned == ec_pc \in {"returned", "clicked"}

C29_SuccessfulChoiceIsValid ==
    (EventChoiceReturned /\ ec_result.success) =>
        /\ 1 <= ec_result.choice_number
        /\ ec_result.choice_number <= ec_choices_found

\* what holds: a successful choice number is 1 or at most the number of
\* choices found, and a choice is tapped only when its number is valid
C29_ChoiceIsFirstOrWithinFound ==
    /\ (EventChoiceReturned /\ ec_result.success) =>
          (ec_result.choice_number = 1 \/ ec_result.choice_number <= ec_choices_found)
    /\ (ec_pc = "clicked" /\ ec_tapped = "choice") =>
          (1 <= ec_result.choice_number /\ ec_result.choice_number <= ec_choices_found)

\* the bottom choice of two is recommended, found and tapped
C29_Witness ==
    /\ ec_pc = "clicked"
    /\ ec_result = EventResult(2, TRUE, 2)
    /\ ec_recommended_option = "Bottom Option"
    /\ ec_tapped = "choice"

\* success is reported with choice 1 while no choice was found on the screen
C29_WitnessNoChoiceFound ==
    /\ ec_pc = "clicked"
    /\ ec_result = EventResult(1, TRUE, 0)
    /\ ec_tapped = "event_matches[0]"


\* ------------------------------------------------------------------------
\* C30: _pick_best_opponent returns an opponent whose rank is not higher
\* than the team's rank and that is the strongest such opponent among all
\* detected opponents (closest to the team's rank); it returns None only
\* when no detected opponent has a rank at or below the team's.
\* ------------------------------------------------------------------------
\* the ranks of the game, the highest first: those of RANK_ORDER and of the
\* opponent templates
GameRanks == <<"S", "A", "B", "C", "D", "E", "F", "G">>

\* place of a rank among the ranks of the game
GameRank(r) == IndexOf(GameRanks, r)

Detected == { opponent_ranks[i] : i \in DOMAIN opponent_ranks }

AtOrBelowTeam(o) == GameRank(o[1]) >= GameRank(team_rank)

Picked == opponent_pc = "done"

C30_PicksStrongestAtOrBelowTeam ==
    Picked =>
        IF chosen = NoOpponent
        THEN \A o \in Detected : ~AtOrBelowTeam(o)
        ELSE /\ chosen \in Detected
             /\ AtOrBelowTeam(chosen)
             /\ \A o \in Detected : AtOrBelowTeam(o) => GameRank(chosen[1]) <= GameRank(o[1])

\* what holds: the same among the detected opponents whose rank is in RANK_ORDER
InRankOrder(o) == o[1] \in DOMAIN RANK_INDEX

C30_PicksStrongestOfRankOrder ==
    Picked =>
        IF chosen = NoOpponent
        THEN \A o \in Detected : InRankOrder(o) => ~AtOrBelowTeam(o)
        ELSE /\ chosen \in Detected
             /\ InRankOrder(chosen)
             /\ AtOrBelowTeam(chosen)
             /\ \A o \in Detected :
                   (InRankOrder(o) /\ AtOrBelowTeam(o)) => GameRank(chosen[1]) <= GameRank(o[1])

\* a stronger opponent above the team's rank is passed over for one at the team's rank
C30_Witness ==
    /\ Picked
    /\ team_rank = "C"
    /\ opponent_ranks = << <<"B", 1>>, <<"C", 2>> >>
    /\ chosen = <<"C", 2>>

\* the only opponent below the team has rank F: nothing is returned
C30_WitnessRankF ==
    /\ Picked
    /\ team_rank = "E"
    /\ opponent_ranks = << <<"F", 1>> >>
    /\ chosen = NoOpponent

====
